---- MODULE Spec2Model ----
(***************************************************************************)
(* Model of the update-orchestration core of SAMSOFT2.0UPDATER1.X.py:      *)
(* the Windows11UpdateManager object, its event handlers, the worker       *)
(* threads started by run_async and the startup thread of __init__.        *)
(*                                                                         *)
(* A thread takes one step per block of statements between two blocking    *)
(* points (an external process invocation or a time.sleep).  A for-loop    *)
(* that only animates the progress bar is one step whose visible effect is *)
(* the last value it writes.  The result of an external command is chosen  *)
(* when the call returns.  The widgets are not modelled, except the two    *)
(* buttons whose state decides which handlers the user can reach.          *)
(***************************************************************************)
EXTENDS Integers, Sequences, FiniteSets, TLC

\* ---------------------------------------------------------------- bounds
MaxRuns == 3        \* run_async invocations in one behaviour
MaxThreads == 2     \* worker threads alive at the same time
MaxUpdates == 2     \* longest update list a query returns
MaxFiles == 3       \* most files in the Downloads directory
MaxRebootRuns == 2  \* workflows in a behaviour that toggles the restart setting
MaxWorkflows == 2   \* workflows in a behaviour that can start any of the seven
MaxPackages == 7    \* most package files in a repository whose progress is followed
MaxLogs == 2        \* log() calls of one worker while the UI loop is followed
MaxSettings == 1    \* workflows in a behaviour that changes the two settings

\* ------------------------------------------------------- text operations
\* Texts are sequences of one-character strings.
\* str.lower()
Lower(s) ==
    [k \in 1..Len(s) |->
       LET c == s[k]
       IN CASE c = "E" -> "e" [] c = "R" -> "r" [] c = "O" -> "o"
            [] c = "C" -> "c" [] c = "X" -> "x" [] c = "M" -> "m"
            [] c = "S" -> "s" [] c = "U" -> "u" [] c = "N" -> "n"
            [] c = "T" -> "t" [] OTHER -> c]

\* sub in s
Contains(s, sub) ==
    \E k \in 0..(Len(s) - Len(sub)) : SubSeq(s, k + 1, k + Len(sub)) = sub

T_error == <<"e", "r", "r", "o", "r">>
T_benign == <<"0", "x", "8", "0", "2", "4", "0", "0", "2", "4">>

\* "Command timed out"
E_timeout == <<"C", "o", "m", "m", "a", "n", "d", " ", "t", "i", "m", "e", "d", " ", "o", "u", "t">>
E_none == <<>>

\* ---------------------------------------------------- standard output
\* The stripped standard output, by its JSON shape:
\*   empty      ""                    array n    a JSON array of n records
\*   object 0   "{}"                  object 1   one non-empty record
\*   scalar n   the JSON number n     text       not JSON
Out(shape, n) == [shape |-> shape, n |-> n]
O_empty == Out("empty", 0)
O_text == Out("text", 0)

\* bool(out): a non-empty string
OutNonEmpty(out) == out.shape # "empty"


\* json.loads: the parsed value, or JSONDecodeError
JSONDecodeError == [kind |-> "JSONDecodeError", n |-> 0]
json_loads(out) ==
    IF out.shape \in {"empty", "text"}
      THEN JSONDecodeError
      ELSE [kind |-> (CASE out.shape = "array" -> "list"
                        [] out.shape = "object" -> "dict"
                        [] OTHER -> "int"),
            n |-> out.n]

\* isinstance(v, list)
IsList(v) == v.kind = "list"


\* ---------------------------------------------------- process results
Result(out, err, code) == [out |-> out, err |-> err, code |-> code]
NoResult == Result(Out("none", 0), E_none, 0)

\* run_powershell: what a call can return.  A completed process gives its
\* stripped output, its error text and its exit code; subprocess.TimeoutExpired
\* and any other exception give fixed triples.
RunPowershell(outs) ==
    \* error texts of a process that ran to its end: none, the text of a failed
    \* cmdlet in upper case, the benign "no updates found" code of Write-Error
    {Result(o, e, c) : o \in outs,
                       e \in {E_none, <<"E", "R", "R", "O", "R", " ", "x">>,
                              <<"E", "r", "r", "o", "r", " ">> \o T_benign},
                       c \in {0, 1}}
      \cup {Result(O_empty, E_timeout, 1),
            \* f"Error: {str(e)}"
            Result(O_empty, <<"E", "r", "r", "o", "r", ":", " ", "x">>, 1)}

\* a command that ends in ConvertTo-Json or writes "[]"
QueryResults ==
    RunPowershell({O_empty, O_text}
                    \cup {Out("array", n) : n \in 0..MaxUpdates}
                    \cup {Out("object", n) : n \in 0..1}
                    \cup {Out("scalar", 1)})
\* a command that writes plain lines, or nothing
PlainResults == RunPowershell({O_empty, O_text})

\* ------------------------------------------------- run_powershell, alone
\* Whitespace as str.strip() sees it.
IsSpace(c) == c \in {" ", "\n"}

RECURSIVE LStrip(_)
LStrip(s) == IF s # <<>> /\ IsSpace(Head(s)) THEN LStrip(Tail(s)) ELSE s

RECURSIVE RStrip(_)
RStrip(s) ==
    IF s # <<>> /\ IsSpace(s[Len(s)]) THEN RStrip(SubSeq(s, 1, Len(s) - 1)) ELSE s

Strip(s) == RStrip(LStrip(s))

\* "Error: " in front of str(e)
ErrorPrefix == <<"E", "r", "r", "o", "r", ":", " ">>

\* text of an exception subprocess.run can end in
X_denied == <<"d", "e", "n", "i", "e", "d">>

\* what a process can write to a pipe
PipeTexts ==
    {<<>>, <<" ">>, <<"a">>, <<" ", "a">>, <<"a", "\n">>, <<"\n", "a", " ", "b", "\n">>}

\* What subprocess.run does in one call of run_powershell: it returns a
\* CompletedProcess (whose stdout and stderr are None unless capture_output),
\* raises TimeoutExpired, or raises another exception (OSError at launch).
Completes(cap, out, err, code) ==
    [how |-> "completed", capture_output |-> cap, stdout |-> out, stderr |-> err,
     returncode |-> code, text |-> <<>>]
TimeoutExpired ==
    [how |-> "TimeoutExpired", capture_output |-> TRUE, stdout |-> <<>>, stderr |-> <<>>,
     returncode |-> 0, text |-> <<>>]
Raises(cap, text) ==
    [how |-> "Exception", capture_output |-> cap, stdout |-> <<>>, stderr |-> <<>>,
     returncode |-> 0, text |-> text]
Invocations ==
    {Completes(TRUE, o, e, c) : o \in PipeTexts, e \in PipeTexts, c \in {0, 1, 2}}
      \cup {Completes(FALSE, <<>>, <<>>, c) : c \in {0, 1, 2}}
      \cup {TimeoutExpired}
      \cup {Raises(cap, x) : cap \in BOOLEAN, x \in {<<"n", "o", " ", "e", "x", "e">>, X_denied}}

\* what the caller of run_powershell gets: a triple, or an exception
Returns(out, err, code) == [raised |-> FALSE, out |-> out, err |-> err, code |-> code]
Propagates == [raised |-> TRUE, out |-> <<>>, err |-> <<>>, code |-> 0]
NotCalled == [raised |-> FALSE, out |-> <<>>, err |-> <<>>, code |-> -1]

\* a variant with the call alone inside the try block and no handler for
\* exceptions other than the timeout
run_powershell_uncaught(c) ==
    IF c.how = "completed"
      THEN IF c.capture_output
             THEN Returns(Strip(c.stdout), Strip(c.stderr), c.returncode)
             ELSE Propagates
    ELSE IF c.how = "TimeoutExpired" THEN Returns(<<>>, E_timeout, 1)
    ELSE Propagates

\* run_powershell: the whole body is inside the try block, so the
\* AttributeError of None.strip() is caught by "except Exception" too
run_powershell(c) ==
    IF c.how = "completed"
      THEN IF c.capture_output
             THEN Returns(Strip(c.stdout), Strip(c.stderr), c.returncode)
             \* str() of the AttributeError of None.strip()
             ELSE Returns(<<>>, ErrorPrefix \o <<"N", "o", "n", "e", "T", "y", "p", "e">>, 1)
    ELSE IF c.how = "TimeoutExpired" THEN Returns(<<>>, E_timeout, 1)
    ELSE Returns(<<>>, ErrorPrefix \o c.text, 1)

\* ----------------------------------------------------------- configuration
\* a JSON value held in the configuration
Bool(b) == [t |-> "bool", b |-> b, s |-> ""]
Str(s) == [t |-> "str", b |-> FALSE, s |-> s]
Obj(s) == [t |-> "obj", b |-> FALSE, s |-> s]
\* Python's truth value of it
ValueTruthy(v) == IF v.t = "bool" THEN v.b ELSE v.s # ""

REPO_DIR == "SamsoftRepo"

DEFAULT_CONFIG ==
    [repo_path |-> Str(REPO_DIR), update_categories |-> Obj("windows,office,dotnet"),
     auto_reboot |-> Bool(FALSE), dark_mode |-> Bool(FALSE)]

\* dict.get(key, default) and dict[key] = value
Get(d, key, default) == IF key \in DOMAIN d THEN d[key] ELSE default
Set(d, key, value) == [k \in DOMAIN d \cup {key} |-> IF k = key THEN value ELSE d[k]]

\* JSON text of a value and back: true, false, a quoted string, an object
Literal(v) ==
    IF v.t = "bool" THEN [lit |-> IF v.b THEN "true" ELSE "false", chars |-> ""]
    ELSE IF v.t = "str" THEN [lit |-> "string", chars |-> v.s]
    ELSE [lit |-> "object", chars |-> v.s]

\* The configuration file: absent, not readable, bytes that are no JSON
\* (empty or cut off), or a JSON text: an object's members, an array, a scalar.
File(kind, members) == [kind |-> kind, members |-> members]
MissingFile == File("missing", {})
MalformedFile == File("malformed", {})

\* json.dump(config, f): one member per key
json_dump(d) == File("object", {<<k, Literal(d[k])>> : k \in DOMAIN d})

\* json.load(f) of a JSON text: a dict, or a value that is no dict
Parsed(t, d) == [t |-> t, d |-> d]
NoDict == [k \in {} |-> Bool(FALSE)]
json_load(f) ==
    IF f.kind = "object"
      THEN Parsed("dict", [k \in {m[1] : m \in f.members} |->
                              LET l == (CHOOSE m \in f.members : m[1] = k)[2]
                              IN IF l.lit = "true" THEN Bool(TRUE)
                                 ELSE IF l.lit = "false" THEN Bool(FALSE)
                                 ELSE IF l.lit = "string" THEN Str(l.chars)
                                 ELSE Obj(l.chars)])
      ELSE Parsed(f.kind, NoDict)

\* a variant that fills the keys a parsed file lacks from the defaults
load_config_merged(f) ==
    IF f.kind = "missing" THEN Parsed("dict", DEFAULT_CONFIG)
    ELSE IF f.kind \in {"unreadable", "malformed"} THEN Parsed("dict", DEFAULT_CONFIG)
    ELSE IF f.kind = "object"
      THEN Parsed("dict", [k \in DOMAIN DEFAULT_CONFIG \cup DOMAIN json_load(f).d |->
                             Get(json_load(f).d, k, DEFAULT_CONFIG[k])])
    ELSE json_load(f)

\* load_config: the default when the file is missing or anything is raised
\* while opening or parsing it, else the parsed value as it is
load_config(f) ==
    IF f.kind = "missing" THEN Parsed("dict", DEFAULT_CONFIG)
    ELSE IF f.kind \in {"unreadable", "malformed"} THEN Parsed("dict", DEFAULT_CONFIG)
    ELSE json_load(f)

\* load_config alone: the file it is called on and what it gave
LoadCall(f, v) == [file |-> f, t |-> v.t, d |-> v.d]
NotLoaded(f) == LoadCall(f, Parsed("none", NoDict))

\* ------------------------------------------------------------------ state
VARIABLES
    threads,                    \* thread 0: the startup thread; 1..MaxThreads: run_async
    running_threads,            \* len(self.running_threads)
    checking_updates,
    installing_updates,
    pswindowsupdate_available,
    current_progress,
    log_queue,                  \* entries waiting for the UI loop
    ui_update_queue,            \* number of status updates put by set_status
    check_button,               \* "normal" or "disabled"
    install_button,             \* TRUE when packed (visible)
    manifest_file,              \* content of updates_manifest.json
    manifest_writers,           \* update lists held by started write_manifest threads
    ensured_once,               \* history: some ensure_module call has returned True
    config,                     \* self.config
    config_file,                \* content of config.json
    auto_reboot_var,            \* the toggle's BooleanVar
    repo_path,                  \* self.repo_path
    downloads,                  \* the Downloads directory of the repository
    stop_event,                 \* self.stop_event is set
    completed,                  \* run_powershell alone: what the invocation did
    returned,                   \* run_powershell alone: what the caller got
    loaded,                     \* load_config alone: what the caller got
    default_config,             \* content of the module's DEFAULT_CONFIG dict
    config_is_default,          \* self.config is the DEFAULT_CONFIG object itself
    messages,                   \* update_log_display: the entries taken so far
    log_text                    \* the entries inserted into the log widget

\* the local repository
repo == <<manifest_file, manifest_writers>>

\* what the workflows of the update module leave alone
env == <<config, config_file, auto_reboot_var, repo_path, downloads, stop_event,
         completed, returned, loaded, default_config, config_is_default,
         messages, log_text>>

vars == <<threads, running_threads, checking_updates, installing_updates,
          pswindowsupdate_available, current_progress, log_queue,
          ui_update_queue, check_button, install_button, repo, ensured_once, env>>

Workers == 1..MaxThreads
ThreadIds == 0..MaxThreads

\* A thread: the function it runs, its position, the locals that live across
\* a blocking point (ret: what ensure_module returned; res: the process result
\* its last step classified), and a record of its run: the commands it issued,
\* the ensure_module commands whose dropped result was a failure by
\* StepFailed, the outcome of its main step and the entries it logged.  The
\* record is dropped when the thread ends.  install_offline keeps its locals
\* msu_files, i and success_count, the files it has handed to dism and the
\* progress values it has set in the file loop.
Thread(kind, pc) ==
    [kind |-> kind, pc |-> pc, ret |-> FALSE, res |-> NoResult,
     cmds |-> <<>>, failed |-> {}, verdict |-> "none", logs |-> <<>>,
     msu_files |-> <<>>, i |-> 0, success_count |-> 0, attempts |-> <<>>,
     emitted |-> <<>>]
\* a thread that returned
Done(w) == Thread(threads[w].kind, "done")

\* a log entry: the message, a number it mentions, its level
Msg(text, n, level) == [text |-> text, n |-> n, level |-> level, of |-> 0]
\* an entry that mentions two numbers: "... {n} of {of} ..."
MsgOf(text, n, of, level) == [text |-> text, n |-> n, level |-> level, of |-> of]

\* what a thread's record holds, as the properties below read it
Logged(w, text) == \E k \in 1..Len(threads[w].logs) : threads[w].logs[k].text = text
LoggedLevel(w, level) == \E k \in 1..Len(threads[w].logs) : threads[w].logs[k].level = level
Issued(w, cmd) == \E k \in 1..Len(threads[w].cmds) : threads[w].cmds[k] = cmd

Alive(w) == threads[w].pc \notin {"idle", "done", "dead"}
InFlight(kind) == {w \in Workers : threads[w].kind = kind /\ Alive(w)}


\* -------------------------------------------------- the Downloads directory
\* file names, as os.listdir gives them
F_a == <<"a", ".", "m", "s", "u">>
F_b == <<"b", ".", "m", "s", "u">>
F_c == <<"c", ".", "m", "s", "u">>
F_upper == <<"d", ".", "M", "S", "U">>
F_txt == <<"r", ".", "t", "x", "t">>
T_msu == <<".", "m", "s", "u">>

\* str.endswith
EndsWith(s, suffix) ==
    Len(s) >= Len(suffix) /\ SubSeq(s, Len(s) - Len(suffix) + 1, Len(s)) = suffix

\* a variant of the filter that takes the extension in any case
RECURSIVE MsuFiles_anycase(_)
MsuFiles_anycase(listing) ==
    IF listing = <<>> THEN <<>>
    ELSE (IF EndsWith(Lower(Head(listing)), T_msu) THEN <<Head(listing)>> ELSE <<>>)
           \o MsuFiles_anycase(Tail(listing))

\* "[f for f in os.listdir(download_dir) if f.endswith('.msu')]"
RECURSIVE MsuFiles(_)
MsuFiles(listing) ==
    IF listing = <<>> THEN <<>>
    ELSE (IF EndsWith(Head(listing), T_msu) THEN <<Head(listing)>> ELSE <<>>)
           \o MsuFiles(Tail(listing))

\* a directory: whether it exists, and its listing
Dir(exists, listing) == [exists |-> exists, listing |-> listing]
NoDir == Dir(FALSE, <<>>)

Paths == {REPO_DIR, "D:/Repo", "E:/Repo"}

\* configuration files the program can be constructed from: __init__ calls
\* .get on what load_config returns, so a JSON text that is no object ends it
Absent == [t |-> "absent", b |-> FALSE, s |-> ""]
With(d, key, v) == IF v = Absent THEN d ELSE Set(d, key, v)
ConfigFiles == {MissingFile, MalformedFile, File("unreadable", {}),
                File("array", {}), File("scalar", {})}
      \cup {json_dump(With(With(With(With(NoDict, "repo_path", r), "update_categories", c),
                                "auto_reboot", a), "dark_mode", m)) :
              r \in {Absent, Str(REPO_DIR), Str("D:/Repo")},
              c \in {Absent, Obj("windows,office,dotnet")},
              a \in {Absent, Bool(TRUE), Bool(FALSE)}, m \in {Absent, Bool(TRUE), Bool(FALSE)}}

\* __init__, with the configuration file f and the Downloads directory d of
\* the repository it finds.  load_config returns the DEFAULT_CONFIG object
\* itself, not a copy, when it falls back.
__init__(f, d) ==
    /\ threads = [w \in ThreadIds |->
                    IF w = 0 THEN Thread("check_pswindowsupdate", "start") ELSE Thread("none", "idle")]
    /\ running_threads = 0
    /\ checking_updates = FALSE
    /\ installing_updates = FALSE
    /\ pswindowsupdate_available = FALSE
    /\ current_progress = 0
    /\ log_queue = <<>>
    /\ ui_update_queue = 0
    /\ check_button = "normal"
    /\ install_button = FALSE
    /\ manifest_file = [kind |-> "absent", n |-> 0]    \* no manifest has been written
    /\ manifest_writers = {}
    /\ ensured_once = FALSE
    /\ config_file = f
    /\ config = load_config(f).d
    /\ repo_path = Get(load_config(f).d, "repo_path", Str(REPO_DIR)).s
    /\ auto_reboot_var = ValueTruthy(Get(load_config(f).d, "auto_reboot", Bool(FALSE)))
    /\ downloads = [p \in Paths |->
                      IF p = Get(load_config(f).d, "repo_path", Str(REPO_DIR)).s
                        THEN d ELSE NoDir]
    /\ stop_event = FALSE
    /\ default_config = DEFAULT_CONFIG
    /\ config_is_default = (f.kind \in {"missing", "unreadable", "malformed"})
    /\ messages = <<>>
    /\ log_text = <<>>

\* run_powershell and load_config are not being looked at alone
NoCall ==
    /\ completed = TimeoutExpired
    /\ returned = NotCalled
    /\ loaded = NotLoaded(MissingFile)

\* a first start: no configuration file, no Downloads directory
Init == __init__(MissingFile, NoDir) /\ NoCall

\* log(): one put per message
log(msgs) == log_queue' = log_queue \o msgs

\* set_status(): one put per call.  Nothing in the program gets from this
\* queue, so only the number of waiting updates is kept.
set_status(titles) == ui_update_queue' = ui_update_queue + Len(titles)

\* "code != 0 or (err and 'error' in err.lower())"
StepFailed(r) == r.code # 0 \/ (r.err # E_none /\ Contains(Lower(r.err), T_error))

\* a thread's step: new position, commands issued and entries logged in it
Step(w, pc, cmds, msgs) ==
    [threads[w] EXCEPT !.pc = pc, !.cmds = @ \o cmds, !.logs = @ \o msgs,
                       !.res = NoResult,
                       !.failed = IF threads[w].pc = "em_ret" THEN {} ELSE @]

\* run_async: a new thread, in the first slot no living thread holds
run_async(kind) ==
    LET FreeSlots == {w \in Workers : ~Alive(w)}
    IN /\ running_threads < MaxRuns
       /\ FreeSlots # {}
       /\ running_threads' = running_threads + 1
       /\ LET w == CHOOSE v \in FreeSlots : \A u \in FreeSlots : v <= u
          IN threads' = [threads EXCEPT ![w] = Thread(kind, "start")]

\* The UI loop polls the log queue every 50 ms, while a worker's block ends in
\* a process invocation or a sleep of at least 50 ms: the loop has emptied the
\* queue before the next block runs.
Polled == log_queue = <<>>

\* the target function returned ("exit") or raised ("raise"): the thread ends
thread_exit(w) ==
    /\ threads[w].pc \in {"exit", "raise"}
    /\ threads' = [threads EXCEPT ![w] = IF threads[w].pc = "exit" THEN Done(w)
                                      ELSE Thread(threads[w].kind, "dead")]
    /\ UNCHANGED <<env, ensured_once, repo, running_threads, checking_updates, installing_updates,
                   pswindowsupdate_available, current_progress, log_queue,
                   ui_update_queue, check_button, install_button>>

\* -------------------------------------------------- check_pswindowsupdate
\* the module-presence test: "not out.strip() and not err" means not found
ModuleFound(r) == ~(~OutNonEmpty(r.out) /\ r.err = E_none)

\* up to the run_powershell call
check_pswindowsupdate_start(w) ==
    /\ threads[w].kind = "check_pswindowsupdate" /\ threads[w].pc = "start"
    /\ LET msgs == <<Msg("Checking for PSWindowsUpdate module...", 0, "info")>>
       IN /\ log(msgs)
          /\ threads' = [threads EXCEPT ![w] = Step(w, "p_query", <<"Get-Module">>, msgs)]
    /\ UNCHANGED <<env, ensured_once, repo, running_threads, checking_updates, installing_updates,
                   pswindowsupdate_available, current_progress,
                   ui_update_queue, check_button, install_button>>

\* run_powershell returns r: the flag is written either way, and the thread
\* ends
check_pswindowsupdate_returns(w, r) ==
    /\ threads[w].kind = "check_pswindowsupdate" /\ threads[w].pc = "p_query"
    /\ pswindowsupdate_available' = ModuleFound(r)
    /\ log(<<Msg(IF ModuleFound(r) THEN "PSWindowsUpdate module is available"
                                   ELSE "PSWindowsUpdate module not found",
                 0, "info")>>)
    /\ threads' = [threads EXCEPT ![w] = Done(w)]
    /\ UNCHANGED <<env, ensured_once, repo, running_threads, checking_updates, installing_updates,
                   current_progress, ui_update_queue, check_button,
                   install_button>>

check_pswindowsupdate(w) ==
    \/ Polled /\ check_pswindowsupdate_start(w)
    \/ Polled /\ \E r \in PlainResults : check_pswindowsupdate_returns(w, r)

\* ----------------------------------------------------------- ensure_module
\* entry: return True at once when the module is marked available, else log
\* and issue the trust command
ensure_module_enter(w) ==
    /\ threads[w].pc = "em_enter"
    /\ IF pswindowsupdate_available
         THEN /\ threads' = [threads EXCEPT ![w] =
                   [Step(w, "em_ret", <<>>, <<>>) EXCEPT !.ret = TRUE]]
              /\ ensured_once' = TRUE
              /\ UNCHANGED log_queue
         ELSE LET msgs == <<Msg("Installing PSWindowsUpdate module...", 0, "info")>>
              IN /\ log(msgs)
                 /\ threads' = [threads EXCEPT ![w] =
                      Step(w, "em_trust", <<"Set-PSRepository">>, msgs)]
                 /\ UNCHANGED ensured_once
    /\ UNCHANGED <<env, repo, running_threads, checking_updates, installing_updates,
                   pswindowsupdate_available, current_progress,
                   ui_update_queue, check_button, install_button>>

\* a variant that gives up when the trust command fails: it logs the failure
\* and returns False without issuing the provider command
ensure_module_trust_abort(w) ==
    /\ threads[w].pc = "em_trust"
    /\ \E r \in PlainResults :
         IF StepFailed(r)
           THEN LET msgs == <<Msg("Failed to trust repository", 0, "error")>>
                IN /\ log(msgs)
                   /\ threads' = [threads EXCEPT ![w] =
                        [Step(w, "em_ret", <<>>, msgs) EXCEPT !.ret = FALSE, !.res = r]]
           ELSE /\ threads' = [threads EXCEPT ![w] =
                     Step(w, "em_nuget", <<"Install-PackageProvider">>, <<>>)]
                /\ UNCHANGED log_queue
    /\ UNCHANGED <<env, ensured_once, repo, running_threads, checking_updates, installing_updates,
                   pswindowsupdate_available, current_progress,
                   ui_update_queue, check_button, install_button>>

\* the trust command returns, its result is dropped; issue the provider command
ensure_module_trust(w) ==
    /\ threads[w].pc = "em_trust"
    /\ \E r \in PlainResults :
         threads' = [threads EXCEPT ![w] =
           [Step(w, "em_nuget", <<"Install-PackageProvider">>, <<>>)
              EXCEPT !.failed = IF StepFailed(r) THEN @ \cup {"Set-PSRepository"} ELSE @]]
    /\ UNCHANGED <<env, ensured_once, repo, running_threads, checking_updates, installing_updates,
                   pswindowsupdate_available, current_progress, log_queue,
                   ui_update_queue, check_button, install_button>>

\* the provider command returns, its result is dropped; issue the module command
ensure_module_nuget(w) ==
    /\ threads[w].pc = "em_nuget"
    /\ \E r \in PlainResults :
         threads' = [threads EXCEPT ![w] =
           [Step(w, "em_install", <<"Install-Module">>, <<>>)
              EXCEPT !.failed = IF StepFailed(r) THEN @ \cup {"Install-PackageProvider"} ELSE @]]
    /\ UNCHANGED <<env, ensured_once, repo, running_threads, checking_updates, installing_updates,
                   pswindowsupdate_available, current_progress, log_queue,
                   ui_update_queue, check_button, install_button>>

\* what the module command's return logs
EnsureLogs(r) ==
    (IF OutNonEmpty(r.out) THEN <<Msg("module command output", 0, "info")>> ELSE <<>>)
      \o (IF StepFailed(r)
            THEN <<Msg("Failed to install module", 0, "error")>>
            ELSE <<Msg("PSWindowsUpdate module installed successfully", 0, "info")>>)

\* the module command returns: classify, mark available on success, return
ensure_module_install(w) ==
    /\ threads[w].pc = "em_install"
    /\ \E r \in PlainResults :
         /\ log(EnsureLogs(r))
         /\ pswindowsupdate_available' = IF StepFailed(r) THEN pswindowsupdate_available ELSE TRUE
         /\ ensured_once' = (ensured_once \/ ~StepFailed(r))
         /\ threads' = [threads EXCEPT ![w] =
              [Step(w, "em_ret", <<>>, EnsureLogs(r))
                 EXCEPT !.ret = ~StepFailed(r), !.res = r]]
    /\ UNCHANGED <<env, repo, running_threads, checking_updates, installing_updates,
                   current_progress, ui_update_queue, check_button,
                   install_button>>

ensure_module(w) ==
    \/ Polled /\ ensure_module_enter(w)
    \/ Polled /\ ensure_module_trust(w)
    \/ Polled /\ ensure_module_nuget(w)
    \/ Polled /\ ensure_module_install(w)

\* ----------------------------------------------------------- check_updates
\* the query's classification:
\*   "code != 0 or (err and 'error' in err.lower() and '0x80240024' not in err)"
\*   "not out.strip() or out.strip() == '[]'"
CheckVerdict(r) ==
    IF r.code # 0 \/ (r.err # E_none /\ Contains(Lower(r.err), T_error)
                                     /\ ~Contains(r.err, T_benign))
      THEN "failure"
    ELSE IF ~OutNonEmpty(r.out) \/ (r.out.shape = "array" /\ r.out.n = 0) THEN "uptodate"
    ELSE IF json_loads(r.out) = JSONDecodeError THEN "parse_failure"
    ELSE "found"

\* "len(updates) if isinstance(updates, list) else 1"
UpdateCount(v) == IF IsList(v) THEN v.n ELSE 1

\* updates.get(...) on a value that is neither a list nor a dict raises
\* AttributeError, which "except json.JSONDecodeError" does not catch
CheckRaises(r) ==
    /\ CheckVerdict(r) = "found"
    /\ ~IsList(json_loads(r.out))
    /\ json_loads(r.out).kind # "dict"


CheckLogs(r) ==
    CASE CheckVerdict(r) = "failure" -> <<Msg("Error checking updates", 0, "error")>>
      [] CheckVerdict(r) = "uptodate" -> <<Msg("Your device is up to date", 0, "info")>>
      [] CheckVerdict(r) = "parse_failure" ->
           <<Msg("Found updates but couldn't parse details", 0, "info")>>
      [] OTHER ->
           <<Msg("Found available updates", UpdateCount(json_loads(r.out)), "info")>>
             \* the per-update lines: the first 10 of a list, or the single record
             \o (LET v == json_loads(r.out)
                 IN IF CheckRaises(r) THEN <<>>
                    ELSE IF IsList(v)
                      THEN [k \in 1..(IF v.n < 10 THEN v.n ELSE 10) |->
                              Msg("  - update", k, "info")]
                    ELSE <<Msg("Update:", 0, "info")>>)


\* first statement: the flag
check_updates_start(w) ==
    /\ threads[w].kind = "check_updates" /\ threads[w].pc = "start"
    /\ checking_updates' = TRUE
    /\ threads' = [threads EXCEPT ![w] = Step(w, "c_begin", <<>>, <<>>)]
    /\ UNCHANGED <<env, ensured_once, repo, running_threads, installing_updates, pswindowsupdate_available,
                   current_progress, log_queue, ui_update_queue,
                   check_button, install_button>>

\* the button, the status, the first log line and the 0..25 progress loop
check_updates_begin(w) ==
    /\ threads[w].kind = "check_updates" /\ threads[w].pc = "c_begin"
    /\ check_button' = "disabled"
    /\ set_status(<<"Checking for updates...">>)
    /\ LET msgs == <<Msg("Checking for updates online...", 0, "info")>>
       IN /\ log(msgs)
          /\ threads' = [threads EXCEPT ![w] = Step(w, "em_enter", <<>>, msgs)]
    /\ current_progress' = 25
    /\ UNCHANGED <<env, ensured_once, repo, running_threads, checking_updates, installing_updates,
                   pswindowsupdate_available, install_button>>

\* a variant that issues the query whatever ensure_module returned
check_updates_ensured_unguarded(w) ==
    /\ threads[w].kind = "check_updates" /\ threads[w].pc = "em_ret"
    /\ threads' = [threads EXCEPT ![w] = Step(w, "c_query", <<"Get-WindowsUpdate">>, <<>>)]
    /\ UNCHANGED <<env, current_progress, ui_update_queue, checking_updates, check_button>>
    /\ UNCHANGED <<env, ensured_once, repo, running_threads, installing_updates, pswindowsupdate_available,
                   log_queue, install_button>>

\* after ensure_module: give up, or issue the query
check_updates_ensured(w) ==
    /\ threads[w].kind = "check_updates" /\ threads[w].pc = "em_ret"
    /\ IF ~threads[w].ret
         THEN /\ current_progress' = 0
              /\ set_status(<<"Error">>)
              /\ checking_updates' = FALSE
              /\ check_button' = "normal"
              /\ threads' = [threads EXCEPT ![w] =
                   [Step(w, "exit", <<>>, <<>>) EXCEPT !.verdict = "no_module"]]
         ELSE /\ threads' = [threads EXCEPT ![w] =
                   Step(w, "c_query", <<"Get-WindowsUpdate">>, <<>>)]
              /\ UNCHANGED <<env, current_progress, ui_update_queue, checking_updates, check_button>>
    /\ UNCHANGED <<env, ensured_once, repo, running_threads, installing_updates, pswindowsupdate_available,
                   log_queue, install_button>>

\* the query returns: the 30..80 progress loop, the classification and, unless
\* it raises, update_progress(100)
check_updates_result(w) ==
    /\ threads[w].kind = "check_updates" /\ threads[w].pc = "c_query"
    /\ \E r \in QueryResults :
         /\ log(CheckLogs(r))
         /\ IF CheckRaises(r)
              THEN /\ current_progress' = 80
                   /\ UNCHANGED <<env, ui_update_queue, install_button>>
              ELSE /\ current_progress' = 100
                   \* the title of the status update
                   /\ set_status(<<CASE CheckVerdict(r) = "failure" -> "Error checking for updates"
                                    [] CheckVerdict(r) = "uptodate" -> "You're up to date"
                                    [] CheckVerdict(r) = "parse_failure" -> "Updates available"
                                    [] OTHER -> "N updates available">>)
                   /\ install_button' =
                        (CASE CheckVerdict(r) = "failure" -> install_button
                           [] CheckVerdict(r) = "uptodate" -> FALSE
                           [] OTHER -> TRUE)
         /\ threads' = [threads EXCEPT ![w] =
              [Step(w, IF CheckRaises(r) THEN "raise" ELSE "c_settle", <<>>, CheckLogs(r))
                 EXCEPT !.res = r, !.verdict = CheckVerdict(r)]]
    /\ UNCHANGED <<env, ensured_once, repo, running_threads, checking_updates, installing_updates,
                   pswindowsupdate_available, check_button>>

\* after the settle delay: progress, flag and button are reset
check_updates_settle(w) ==
    /\ threads[w].kind = "check_updates" /\ threads[w].pc = "c_settle"
    /\ current_progress' = 0
    /\ checking_updates' = FALSE
    /\ check_button' = "normal"
    /\ threads' = [threads EXCEPT ![w] = Step(w, "exit", <<>>, <<>>)]
    /\ UNCHANGED <<env, ensured_once, repo, running_threads, installing_updates, pswindowsupdate_available,
                   log_queue, ui_update_queue, install_button>>

check_updates(w) ==
    \/ Polled /\ check_updates_start(w)
    \/ Polled /\ check_updates_begin(w)
    \/ Polled /\ check_updates_ensured(w)
    \/ Polled /\ check_updates_result(w)
    \/ Polled /\ check_updates_settle(w)

\* --------------------------------------------------------- install_updates
\* "json.loads(out) if out else []"
ListValue(r) == IF OutNonEmpty(r.out) THEN json_loads(r.out) ELSE [kind |-> "list", n |-> 0]

\* a variant without the test for an empty list
ListVerdict_untested(r) ==
    IF ListValue(r) = JSONDecodeError THEN "list_failure" ELSE "installing"

\* the update-list step: the parse raised, the value is false, or there is
\* something to install.  Neither err nor code is read.
ListVerdict(r) ==
    IF ListValue(r) = JSONDecodeError THEN "list_failure"
    \* bool(v): empty containers and the number 0 are false
    ELSE IF ListValue(r).n = 0 THEN "none_available"
    ELSE "installing"

\* each non-blank line of the captured output is logged
OutputLines(r) == IF OutNonEmpty(r.out) THEN <<Msg("output line", 0, "info")>> ELSE <<>>

InstallLogs(r) ==
    OutputLines(r)
      \o (IF StepFailed(r) THEN <<Msg("Installation failed", 0, "error")>>
                           ELSE <<Msg("Updates installed successfully", 0, "info")>>)

\* the flag, the first log line, update_progress(10)
install_updates_start(w) ==
    /\ threads[w].kind = "install_updates" /\ threads[w].pc = "start"
    /\ installing_updates' = TRUE
    /\ LET msgs == <<Msg("Installing updates...", 0, "info")>>
       IN /\ log(msgs)
          /\ threads' = [threads EXCEPT ![w] = Step(w, "em_enter", <<>>, msgs)]
    /\ current_progress' = 10
    /\ UNCHANGED <<env, ensured_once, repo, running_threads, checking_updates, pswindowsupdate_available,
                   ui_update_queue, check_button, install_button>>

\* after ensure_module: give up, or issue the update-list query
install_updates_ensured(w) ==
    /\ threads[w].kind = "install_updates" /\ threads[w].pc = "em_ret"
    /\ IF ~threads[w].ret
         THEN /\ current_progress' = 0
              /\ installing_updates' = FALSE
              /\ threads' = [threads EXCEPT ![w] =
                   [Step(w, "exit", <<>>, <<>>) EXCEPT !.verdict = "no_module"]]
         ELSE /\ current_progress' = 30
              /\ threads' = [threads EXCEPT ![w] = Step(w, "i_query", <<"Get-WUList">>, <<>>)]
              /\ UNCHANGED installing_updates
    /\ UNCHANGED <<env, ensured_once, repo, running_threads, checking_updates, pswindowsupdate_available,
                   log_queue, ui_update_queue, check_button, install_button>>

\* a variant with the two flags the wrong way round
reboot_param_inverted(c) ==
    IF ValueTruthy(Get(c, "auto_reboot", Bool(FALSE))) THEN "-IgnoreReboot" ELSE "-AutoReboot"

\* '"-AutoReboot" if self.config.get("auto_reboot", False) else "-IgnoreReboot"'
reboot_param(c) ==
    IF ValueTruthy(Get(c, "auto_reboot", Bool(FALSE))) THEN "-AutoReboot" ELSE "-IgnoreReboot"

\* the update-list query returns: stop, or issue the install-all command
install_updates_list(w) ==
    /\ threads[w].kind = "install_updates" /\ threads[w].pc = "i_query"
    /\ \E r \in QueryResults :
         LET msgs ==
               CASE ListVerdict(r) = "list_failure" ->
                      <<Msg("Failed to check updates", 0, "error")>>
                 [] ListVerdict(r) = "none_available" ->
                      <<Msg("No updates available", 0, "info")>>
                 [] OTHER ->
                      <<Msg("Installing updates", UpdateCount(ListValue(r)), "info"),
                        Msg("Running Windows Update installation...", 0, "info")>>
         IN /\ log(msgs)
            /\ IF ListVerdict(r) = "installing"
                 THEN /\ current_progress' = 50
                      /\ UNCHANGED installing_updates
                      /\ threads' = [threads EXCEPT ![w] =
                           [Step(w, "i_install",
                                 <<"Get-WindowsUpdate -Install", reboot_param(config)>>, msgs)
                              EXCEPT !.res = r, !.verdict = ListVerdict(r)]]
                 ELSE /\ current_progress' = 0
                      /\ installing_updates' = FALSE
                      /\ threads' = [threads EXCEPT ![w] =
                           [Step(w, "exit", <<>>, msgs)
                              EXCEPT !.res = r, !.verdict = ListVerdict(r)]]
    /\ UNCHANGED <<env, ensured_once, repo, running_threads, checking_updates, pswindowsupdate_available,
                   ui_update_queue, check_button, install_button>>

\* a variant that issues the install-all command a second time when its first
\* result is a failure
install_updates_result_retry(w) ==
    /\ threads[w].kind = "install_updates" /\ threads[w].pc = "i_install"
    /\ \E r \in PlainResults :
         LET again == StepFailed(r) /\ Len(threads[w].cmds) < 7
         IN /\ log(InstallLogs(r))
            /\ threads' = [threads EXCEPT ![w] =
                 [Step(w, IF again THEN "i_install" ELSE "i_settle",
                       IF again THEN <<"Get-WindowsUpdate -Install">> ELSE <<>>,
                       InstallLogs(r))
                    EXCEPT !.res = r,
                           !.verdict = IF StepFailed(r) THEN "failure" ELSE "installed"]]
    /\ current_progress' = 100
    /\ UNCHANGED <<env, ensured_once, repo, running_threads, checking_updates, installing_updates,
                   pswindowsupdate_available, ui_update_queue, check_button,
                   install_button>>

\* the install-all command returns: log its lines, classify, update_progress(100)
install_updates_result(w) ==
    /\ threads[w].kind = "install_updates" /\ threads[w].pc = "i_install"
    /\ \E r \in PlainResults :
         /\ log(InstallLogs(r))
         /\ threads' = [threads EXCEPT ![w] =
              [Step(w, "i_settle", <<>>, InstallLogs(r))
                 EXCEPT !.res = r,
                        !.verdict = IF StepFailed(r) THEN "failure" ELSE "installed"]]
    /\ current_progress' = 100
    /\ UNCHANGED <<env, ensured_once, repo, running_threads, checking_updates, installing_updates,
                   pswindowsupdate_available, ui_update_queue, check_button,
                   install_button>>

\* after the settle delay: progress and flag are reset
install_updates_settle(w) ==
    /\ threads[w].kind = "install_updates" /\ threads[w].pc = "i_settle"
    /\ current_progress' = 0
    /\ installing_updates' = FALSE
    /\ threads' = [threads EXCEPT ![w] = Step(w, "exit", <<>>, <<>>)]
    /\ UNCHANGED <<env, ensured_once, repo, running_threads, checking_updates, pswindowsupdate_available,
                   log_queue, ui_update_queue, check_button, install_button>>

install_updates(w) ==
    \/ Polled /\ install_updates_start(w)
    \/ Polled /\ install_updates_ensured(w)
    \/ Polled /\ install_updates_list(w)
    \/ Polled /\ install_updates_result(w)
    \/ Polled /\ install_updates_settle(w)

\* -------------------------------------------------------- download_updates
\* the download step's classification: "err and 'error' in err.lower()";
\* the exit code is not read
DownloadFailed(r) == r.err # E_none /\ Contains(Lower(r.err), T_error)

\* the first log line, update_progress(10)
download_updates_start_saving(w) ==
    /\ threads[w].kind = "download_updates" /\ threads[w].pc = "start"
    /\ LET msgs == <<Msg("Downloading updates to repo_path...", 0, "info")>>
       IN /\ log(msgs)
          /\ threads' = [threads EXCEPT ![w] = Step(w, "em_enter", <<>>, msgs)]
    /\ current_progress' = 10
    /\ config_file' = json_dump(config)
    /\ UNCHANGED <<config, auto_reboot_var, repo_path, downloads, stop_event, completed,
                   returned, loaded, default_config, config_is_default, messages,
                   log_text, ensured_once, repo, running_threads, checking_updates,
                   installing_updates, pswindowsupdate_available, ui_update_queue,
                   check_button, install_button>>

download_updates_start(w) ==
    /\ threads[w].kind = "download_updates" /\ threads[w].pc = "start"
    /\ LET msgs == <<Msg("Downloading updates to repo_path...", 0, "info")>>
       IN /\ log(msgs)
          /\ threads' = [threads EXCEPT ![w] = Step(w, "em_enter", <<>>, msgs)]
    /\ current_progress' = 10
    /\ UNCHANGED <<env, ensured_once, repo, running_threads, checking_updates, installing_updates,
                   pswindowsupdate_available, ui_update_queue, check_button,
                   install_button>>

\* after ensure_module: give up, or make the directory and issue the download
download_updates_ensured(w) ==
    /\ threads[w].kind = "download_updates" /\ threads[w].pc = "em_ret"
    /\ IF ~threads[w].ret
         THEN /\ current_progress' = 0
              /\ threads' = [threads EXCEPT ![w] =
                   [Step(w, "exit", <<>>, <<>>) EXCEPT !.verdict = "no_module"]]
         ELSE /\ current_progress' = 50
              /\ threads' = [threads EXCEPT ![w] =
                   Step(w, "d_download", <<"Get-WindowsUpdate -Download">>, <<>>)]
    /\ UNCHANGED <<env, ensured_once, repo, running_threads, checking_updates, installing_updates,
                   pswindowsupdate_available, log_queue, ui_update_queue,
                   check_button, install_button>>

\* the download command returns: log its lines and classify; on success
\* _create_update_manifest issues the metadata query
download_updates_result(w) ==
    /\ threads[w].kind = "download_updates" /\ threads[w].pc = "d_download"
    /\ \E r \in PlainResults :
         LET msgs == OutputLines(r)
                       \o (IF DownloadFailed(r)
                             THEN <<Msg("Download error", 0, "error")>>
                             ELSE <<Msg("Updates downloaded successfully", 0, "info")>>)
         IN /\ log(msgs)
            /\ IF DownloadFailed(r)
                 THEN /\ current_progress' = 100
                      /\ threads' = [threads EXCEPT ![w] =
                           [Step(w, "d_settle", <<>>, msgs)
                              EXCEPT !.res = r, !.verdict = "failure"]]
                 ELSE /\ current_progress' = 90
                      /\ threads' = [threads EXCEPT ![w] =
                           [Step(w, "m_query", <<"Get-WindowsUpdate (manifest)">>, msgs)
                              EXCEPT !.res = r, !.verdict = "downloaded"]]
    /\ UNCHANGED <<env, ensured_once, repo, running_threads, checking_updates, installing_updates,
                   pswindowsupdate_available, ui_update_queue, check_button,
                   install_button>>

\* _create_update_manifest: "if out and not err and code == 0"
ManifestUsable(r) == OutNonEmpty(r.out) /\ r.err = E_none /\ r.code = 0

\* the metadata query returns: a parsed list is handed to a write_manifest
\* thread; a parse error is logged; then update_progress(100)
_create_update_manifest(w) ==
    /\ threads[w].kind = "download_updates" /\ threads[w].pc = "m_query"
    /\ \E r \in QueryResults :
         LET parsed == ManifestUsable(r) /\ json_loads(r.out) # JSONDecodeError
             msgs == IF ~ManifestUsable(r) THEN <<>>
                     ELSE IF parsed THEN <<Msg("Created update manifest", 0, "info")>>
                     ELSE <<Msg("Could not create manifest", 0, "info")>>
         IN /\ log(msgs)
            /\ manifest_writers' =
                 IF parsed THEN manifest_writers \cup {json_loads(r.out)} ELSE manifest_writers
            /\ threads' = [threads EXCEPT ![w] =
                 [Step(w, "d_settle", <<>>, msgs) EXCEPT !.res = r]]
    /\ current_progress' = 100
    /\ UNCHANGED <<env, ensured_once, manifest_file, running_threads, checking_updates,
                   installing_updates, pswindowsupdate_available, ui_update_queue,
                   check_button, install_button>>

\* after the settle delay: progress is reset
download_updates_settle(w) ==
    /\ threads[w].kind = "download_updates" /\ threads[w].pc = "d_settle"
    /\ current_progress' = 0
    /\ threads' = [threads EXCEPT ![w] = Step(w, "exit", <<>>, <<>>)]
    /\ UNCHANGED <<env, ensured_once, repo, running_threads, checking_updates, installing_updates,
                   pswindowsupdate_available, log_queue, ui_update_queue,
                   check_button, install_button>>

download_updates(w) ==
    \/ Polled /\ download_updates_start(w)
    \/ Polled /\ download_updates_ensured(w)
    \/ Polled /\ download_updates_result(w)
    \/ Polled /\ _create_update_manifest(w)
    \/ Polled /\ download_updates_settle(w)

\* a variant that opens the file for appending
write_manifest_append ==
    /\ \E v \in manifest_writers :
         /\ manifest_writers' = manifest_writers \ {v}
         /\ \/ manifest_file' = [kind |-> v.kind, n |-> manifest_file.n + v.n]
            \/ UNCHANGED manifest_file
    /\ UNCHANGED <<env, ensured_once, threads, running_threads, checking_updates,
                   installing_updates, pswindowsupdate_available, current_progress,
                   log_queue, ui_update_queue, check_button, install_button>>

\* a write_manifest thread: open(manifest_path, 'w') and json.dump replace the
\* file's content; an OSError ends the thread and nobody is told
write_manifest ==
    /\ \E v \in manifest_writers :
         /\ manifest_writers' = manifest_writers \ {v}
         /\ \/ manifest_file' = v
            \/ UNCHANGED manifest_file
    /\ UNCHANGED <<env, ensured_once, threads, running_threads, checking_updates,
                   installing_updates, pswindowsupdate_available, current_progress,
                   log_queue, ui_update_queue, check_button, install_button>>

\* --------------------------------------------------------- event handlers
\* The check button delivers its command only while it is enabled.
on_check_updates ==
    /\ check_button = "normal"
    /\ IF checking_updates
         THEN UNCHANGED vars
         ELSE /\ run_async("check_updates")
              /\ UNCHANGED <<env, ensured_once, repo, checking_updates, installing_updates,
                             pswindowsupdate_available, current_progress, log_queue,
                             ui_update_queue, check_button, install_button>>

on_download_updates ==
    /\ run_async("download_updates")
    /\ UNCHANGED <<env, ensured_once, repo, checking_updates, installing_updates,
                   pswindowsupdate_available, current_progress, log_queue,
                   ui_update_queue, check_button, install_button>>

\* The install button is there to click only while it is packed.
on_install_updates ==
    /\ install_button
    /\ run_async("install_updates")
    /\ UNCHANGED <<env, ensured_once, repo, checking_updates, installing_updates,
                   pswindowsupdate_available, current_progress, log_queue,
                   ui_update_queue, check_button, install_button>>

\* --------------------------------------------------------------- UI loop
\* update_log_display: take every waiting entry and insert it into the widget
\* (one step; the widget's text is not followed here)
update_log_display ==
    /\ log_queue # <<>>
    /\ log_queue' = <<>>
    /\ UNCHANGED <<env, ensured_once, repo, threads, running_threads, checking_updates, installing_updates,
                   pswindowsupdate_available, current_progress, ui_update_queue,
                   check_button, install_button>>

\* The same function, followed statement by statement while workers go on
\* logging.  A worker thread, whatever it runs, calls log() with its next
\* message; the message carries the worker and its number.
log_call(w) ==
    /\ Len(threads[w].logs) < MaxLogs
    /\ LET msgs == <<MsgOf("message", Len(threads[w].logs) + 1, w, "info")>>
       IN /\ log(msgs)
          /\ threads' = [threads EXCEPT ![w].logs = @ \o msgs]
    /\ UNCHANGED <<env, ensured_once, repo, running_threads, checking_updates, installing_updates,
                   pswindowsupdate_available, current_progress, ui_update_queue,
                   check_button, install_button>>

\* a variant that takes the newest entry of the queue
update_log_display_get_last ==
    /\ log_queue # <<>>
    /\ messages' = Append(messages, log_queue[Len(log_queue)])
    /\ log_queue' = SubSeq(log_queue, 1, Len(log_queue) - 1)
    /\ UNCHANGED <<threads, running_threads, checking_updates, installing_updates,
                   pswindowsupdate_available, current_progress, ui_update_queue,
                   check_button, install_button, repo, ensured_once, config, config_file,
                   auto_reboot_var, repo_path, downloads, stop_event, completed, returned,
                   loaded, default_config, config_is_default, log_text>>

\* "while not self.log_queue.empty(): messages.append(self.log_queue.get_nowait())"
update_log_display_get ==
    /\ log_queue # <<>>
    /\ messages' = Append(messages, Head(log_queue))
    /\ log_queue' = Tail(log_queue)
    /\ UNCHANGED <<threads, running_threads, checking_updates, installing_updates,
                   pswindowsupdate_available, current_progress, ui_update_queue,
                   check_button, install_button, repo, ensured_once, config, config_file,
                   auto_reboot_var, repo_path, downloads, stop_event, completed, returned,
                   loaded, default_config, config_is_default, log_text>>

\* the queue was found empty: "if messages:" inserts the entries taken, in
\* the order they were taken
update_log_display_insert ==
    /\ log_queue = <<>>
    /\ messages # <<>>
    /\ log_text' = log_text \o messages
    /\ messages' = <<>>
    /\ UNCHANGED <<threads, running_threads, checking_updates, installing_updates,
                   pswindowsupdate_available, current_progress, ui_update_queue,
                   check_button, install_button, repo, ensured_once, config, config_file,
                   auto_reboot_var, repo_path, downloads, stop_event, completed, returned,
                   loaded, default_config, config_is_default, log_queue>>

\* Workers logging at any moment; start_ui_loop calls update_log_display again
\* every 50 ms.
NextLog ==
    \/ \E w \in Workers : log_call(w)
    \/ update_log_display_get
    \/ update_log_display_insert

SpecLog ==
    /\ Init /\ [][NextLog]_vars
    /\ WF_vars(update_log_display_get) /\ WF_vars(update_log_display_insert)

\* ------------------------------------------------------------ behaviours
\* One workflow at a time: the user starts a workflow only when no worker
\* thread is alive.  The startup thread still runs beside the workflows.
Idle == \A w \in Workers : ~Alive(w)

Next ==
    \/ Polled /\ Idle /\ on_check_updates
    \/ Polled /\ Idle /\ on_download_updates
    \/ Polled /\ Idle /\ on_install_updates
    \/ \E w \in ThreadIds :
         \/ check_pswindowsupdate(w)
         \/ ensure_module(w)
         \/ check_updates(w)
         \/ install_updates(w)
         \/ download_updates(w)
         \/ thread_exit(w)
    \/ write_manifest
    \/ update_log_display

Spec == Init /\ [][Next]_vars

\* Check workflows started at any time, MaxThreads of them alive at once.
NextCheck ==
    \/ Polled /\ on_check_updates
    \/ \E w \in ThreadIds :
         \/ check_pswindowsupdate(w)
         \/ ensure_module(w)
         \/ check_updates(w)
         \/ thread_exit(w)
    \/ update_log_display

SpecCheck == Init /\ [][NextCheck]_vars

\* A check workflow run alone, install workflows started at any time.
NextInstall ==
    \/ Polled /\ Idle /\ on_check_updates
    \/ Polled /\ on_install_updates
    \/ \E w \in ThreadIds :
         \/ check_pswindowsupdate(w)
         \/ ensure_module(w)
         \/ check_updates(w)
         \/ install_updates(w)
         \/ thread_exit(w)
    \/ update_log_display

SpecInstall == Init /\ [][NextInstall]_vars

\* Check workflows one at a time, at most MaxWorkflows of them, with every
\* thread and the UI loop (root.after(50, ...)) scheduled again and again.
NextStatus ==
    \/ Polled /\ Idle /\ running_threads < MaxWorkflows /\ on_check_updates
    \/ \E w \in ThreadIds :
         \/ check_pswindowsupdate(w)
         \/ ensure_module(w)
         \/ check_updates(w)
         \/ thread_exit(w)
    \/ update_log_display

SpecStatus == Init /\ [][NextStatus]_vars /\ WF_vars(NextStatus)

\* ------------------------------------------------------- the two settings
\* save_config: open(CONFIG_FILE, 'w') and json.dump.  It writes the file, or
\* open raises and the file is as before, or the dump raises after open has
\* emptied the file.  An exception leaves the handler that called it.
SaveOutcomes == {"written", "open raises", "dump raises"}
save_config(d, o) ==
    config_file' = CASE o = "written" -> json_dump(d)
                     [] o = "open raises" -> config_file
                     [] OTHER -> MalformedFile

\* a variant that saves first and assigns afterwards
on_toggle_auto_reboot_late ==
    /\ auto_reboot_var' = ~auto_reboot_var
    /\ config' = Set(config, "auto_reboot", Bool(auto_reboot_var'))
    /\ default_config' = IF config_is_default THEN config' ELSE default_config
    /\ \E o \in SaveOutcomes :
         /\ save_config(config, o)
         /\ IF o = "written"
              THEN log(<<Msg("Automatic restart", IF auto_reboot_var' THEN 1 ELSE 0, "info")>>)
              ELSE UNCHANGED log_queue
    /\ UNCHANGED <<threads, running_threads, checking_updates, installing_updates,
                   pswindowsupdate_available, current_progress, ui_update_queue,
                   check_button, install_button, repo, ensured_once, repo_path,
                   downloads, stop_event, completed, returned, loaded,
                   config_is_default, messages, log_text>>

\* The checkbutton flips its variable and calls the handler: the setting is
\* assigned, saved and logged ("enabled": 1, "disabled": 0).  The assignment
\* is made in the dict object self.config refers to.
on_toggle_auto_reboot ==
    /\ auto_reboot_var' = ~auto_reboot_var
    /\ config' = Set(config, "auto_reboot", Bool(auto_reboot_var'))
    /\ default_config' = IF config_is_default THEN config' ELSE default_config
    /\ \E o \in SaveOutcomes :
         /\ save_config(config', o)
         /\ IF o = "written"
              THEN log(<<Msg("Automatic restart", IF auto_reboot_var' THEN 1 ELSE 0, "info")>>)
              ELSE UNCHANGED log_queue
    /\ UNCHANGED <<threads, running_threads, checking_updates, installing_updates,
                   pswindowsupdate_available, current_progress, ui_update_queue,
                   check_button, install_button, repo, ensured_once, repo_path,
                   downloads, stop_event, completed, returned, loaded,
                   config_is_default, messages, log_text>>

\* The directory dialog returns a path, or "" when it is cancelled.
on_change_repo ==
    /\ \E new_path \in {""} \cup Paths :
         IF new_path = ""
           THEN UNCHANGED <<repo_path, config, default_config, config_file, log_queue>>
           ELSE /\ repo_path' = new_path
                /\ config' = Set(config, "repo_path", Str(new_path))
                /\ default_config' = IF config_is_default THEN config' ELSE default_config
                /\ \E o \in SaveOutcomes :
                     /\ save_config(config', o)
                     /\ IF o = "written"
                          THEN log(<<Msg("Repository path changed", 0, "info")>>)
                          ELSE UNCHANGED log_queue
    /\ UNCHANGED <<threads, running_threads, checking_updates, installing_updates,
                   pswindowsupdate_available, current_progress, ui_update_queue,
                   check_button, install_button, repo, ensured_once, auto_reboot_var,
                   downloads, stop_event, completed, returned, loaded,
                   config_is_default, messages, log_text>>

\* The two settings changed in any order, from every configuration file the
\* program starts with.
InitConfig == \E f \in {g \in ConfigFiles : load_config(g).t = "dict"} : __init__(f, NoDir) /\ NoCall

NextConfig ==
    \/ Polled /\ on_toggle_auto_reboot
    \/ Polled /\ on_change_repo
    \/ update_log_display

SpecConfig == InitConfig /\ [][NextConfig]_vars

\* An install workflow after a check workflow, at most MaxRebootRuns
\* workflows in all, with the restart setting toggled at any moment.
InitReboot ==
    \E f \in {MissingFile, json_dump([dark_mode |-> Bool(TRUE)]),
              json_dump(Set(DEFAULT_CONFIG, "auto_reboot", Bool(TRUE)))} :
      __init__(f, NoDir) /\ NoCall

NextReboot ==
    \/ Polled /\ Idle /\ running_threads < MaxRebootRuns /\ on_check_updates
    \/ Polled /\ Idle /\ running_threads < MaxRebootRuns /\ on_install_updates
    \/ Polled /\ on_toggle_auto_reboot
    \/ \E w \in Workers :
         \/ ensure_module(w)
         \/ check_updates(w)
         \/ install_updates(w)
         \/ thread_exit(w)
    \/ update_log_display

SpecReboot == InitReboot /\ [][NextReboot]_vars

\* ---------------------------------------------------------- install_offline
\* a variant that rounds to the nearest integer
OfflineProgress_rounded(done, n) == (30 * n + done * 60 + n \div 2) \div n

\* "int(30 + ((i + 1) * 60 / len(msu_files)))", done files counted from 1
OfflineProgress(done, n) == (30 * n + done * 60) \div n

\* a variant that counts every dism run that ended, whatever its exit code
Counted_completed(o, k) == IF o # "exception" THEN k + 1 ELSE k

\* "if result.returncode == 0: ... success_count += 1"
Counted(o, k) == IF o = "exit0" THEN k + 1 ELSE k

\* a variant of the loop head that does not look at stop_event
LoopHead_unchecked(t, msgs) ==
    IF t.i < Len(t.msu_files)
      THEN [t EXCEPT !.pc = "o_dism",
                     !.attempts = @ \o <<t.msu_files[t.i + 1]>>,
                     !.logs = @ \o msgs \o <<Msg("Installing file", t.i + 1, "info")>>]
      ELSE [t EXCEPT !.pc = "o_settle",
                     !.verdict = "counted",
                     !.logs = @ \o msgs \o
                        <<MsgOf("Installed updates", t.success_count,
                                Len(t.msu_files), "info")>>]

\* The head of the file loop, reached by thread record t with msgs logged so
\* far in this block: test stop_event, then hand the next file to dism, or
\* leave the loop, log the count and call update_progress(100).
LoopHead(t, msgs) ==
    IF t.i < Len(t.msu_files) /\ ~stop_event
      THEN [t EXCEPT !.pc = "o_dism",
                     !.attempts = @ \o <<t.msu_files[t.i + 1]>>,
                     !.logs = @ \o msgs \o <<Msg("Installing file", t.i + 1, "info")>>]
      ELSE [t EXCEPT !.pc = "o_settle",
                     !.verdict = "counted",
                     !.logs = @ \o msgs \o
                        <<MsgOf("Installed updates", t.success_count,
                                Len(t.msu_files), "info")>>]
\* the entries a block put into the log queue
NewLogs(w, t) == SubSeq(t.logs, Len(threads[w].logs) + 1, Len(t.logs))

\* from the first log line to the first dism invocation
install_offline_start(w) ==
    /\ threads[w].kind = "install_offline" /\ threads[w].pc = "start"
    /\ LET d == downloads[repo_path]
           first == <<Msg("Installing from repository", 0, "info")>>
           msu_files == MsuFiles(d.listing)
           t == IF ~d.exists \/ d.listing = <<>>
                  THEN [Step(w, "exit", <<>>,
                             first \o <<Msg("No updates found in repository", 0, "error")>>)
                          EXCEPT !.verdict = "no_updates"]
                ELSE IF msu_files = <<>>
                  THEN [Step(w, "exit", <<>>,
                             first \o <<Msg("No .msu files found", 0, "error")>>)
                          EXCEPT !.verdict = "no_msu"]
                ELSE LoopHead([threads[w] EXCEPT !.msu_files = msu_files],
                              first \o <<Msg("Found update files", Len(msu_files), "info")>>)
       IN /\ threads' = [threads EXCEPT ![w] = t]
          /\ log(NewLogs(w, t))
          /\ current_progress' = CASE t.pc = "exit" -> 0
                                   [] t.pc = "o_dism" -> 30
                                   [] OTHER -> 100
    /\ UNCHANGED <<env, ensured_once, repo, running_threads, checking_updates,
                   installing_updates, pswindowsupdate_available, ui_update_queue,
                   check_button, install_button>>

\* a dism invocation ends: log it, count it, update the progress
\* (update_progress(int(progress)), overwritten by update_progress(100) in the
\* same block after the last file), next file
install_offline_result(w) ==
    /\ threads[w].kind = "install_offline" /\ threads[w].pc = "o_dism"
    \* dism ends with exit code 0 or another exit code, or subprocess.run raises
    \* (the 600 s timeout, a launch failure)
    /\ \E o \in {"exit0", "nonzero", "exception"} :
         LET file == threads[w].msu_files[threads[w].i + 1]
             msgs == CASE o = "exit0" ->
                            <<Msg("Successfully installed", threads[w].i + 1, "info")>>
                       [] o = "nonzero" ->
                            <<Msg("Failed to install", threads[w].i + 1, "error")>>
                       [] OTHER ->
                            <<Msg("Error installing", threads[w].i + 1, "error")>>
             t == LoopHead([threads[w] EXCEPT
                              !.i = @ + 1,
                              !.emitted = @ \o <<OfflineProgress(threads[w].i + 1,
                                                                 Len(threads[w].msu_files))>>,
                              !.success_count = Counted(o, @),
                              !.failed = IF o = "exit0" THEN @ ELSE @ \cup {file}],
                           msgs)
         IN /\ threads' = [threads EXCEPT ![w] = t]
            /\ log(NewLogs(w, t))
            /\ current_progress' =
                 IF t.pc = "o_dism" THEN OfflineProgress(t.i, Len(t.msu_files)) ELSE 100
    /\ UNCHANGED <<env, ensured_once, repo, running_threads, checking_updates,
                   installing_updates, pswindowsupdate_available, ui_update_queue,
                   check_button, install_button>>

\* after the settle delay: progress is reset
install_offline_settle(w) ==
    /\ threads[w].kind = "install_offline" /\ threads[w].pc = "o_settle"
    /\ current_progress' = 0
    /\ threads' = [threads EXCEPT ![w] = Step(w, "exit", <<>>, <<>>)]
    /\ UNCHANGED <<env, ensured_once, repo, running_threads, checking_updates,
                   installing_updates, pswindowsupdate_available, log_queue,
                   ui_update_queue, check_button, install_button>>

\* Once the window is closed nothing empties the log queue any more.
install_offline(w) ==
    \/ (Polled \/ stop_event) /\ install_offline_start(w)
    \/ (Polled \/ stop_event) /\ install_offline_result(w)
    \/ (Polled \/ stop_event) /\ install_offline_settle(w)

on_install_offline ==
    /\ run_async("install_offline")
    /\ UNCHANGED <<env, ensured_once, repo, checking_updates, installing_updates,
                   pswindowsupdate_available, current_progress, log_queue,
                   ui_update_queue, check_button, install_button>>

\* cleanup, called when the window is closed: set the event; the joins wait
\* one second for each living thread and change nothing
cleanup ==
    /\ ~stop_event
    /\ stop_event' = TRUE
    /\ UNCHANGED <<threads, running_threads, checking_updates, installing_updates,
                   pswindowsupdate_available, current_progress, log_queue,
                   ui_update_queue, check_button, install_button, repo, ensured_once,
                   config, config_file, auto_reboot_var, repo_path, downloads,
                   completed, returned, loaded, default_config, config_is_default,
                   messages, log_text>>

\* Offline installs, one at a time, over every Downloads directory; the
\* window can be closed at any moment, which ends the handlers and the UI loop.
InitOffline ==
    \E d \in {NoDir} \cup
             {Dir(TRUE, l) : l \in UNION {{m \in [1..n -> {F_a, F_b, F_c, F_upper, F_txt}] :
                                             \A a, b \in 1..n : a # b => m[a] # m[b]} :
                                          n \in 0..MaxFiles}} :
      __init__(MissingFile, d) /\ NoCall

NextOffline ==
    \/ ~stop_event /\ Polled /\ Idle /\ on_install_offline
    \/ \E w \in Workers :
         \/ install_offline(w)
         \/ thread_exit(w)
    \/ ~stop_event /\ update_log_display
    \/ cleanup

SpecOffline == InitOffline /\ [][NextOffline]_vars

\* Offline installs over a repository of 1 to MaxPackages package files
\* "1.msu", "2.msu", ...
InitPackages ==
    \E n \in 1..MaxPackages :
      /\ __init__(MissingFile,
                  Dir(TRUE, [k \in 1..n |->
                               <<SubSeq("123456789", k, k)>> \o T_msu]))
      /\ NoCall

SpecPackages == InitPackages /\ [][NextOffline]_vars

\* ------------------------------------------- update_dotnet, update_vcredist
\* both classify their command by "code == 0" alone
DotnetFailed(r) == r.code # 0
VcredistFailed(r) == r.code # 0

\* ------------------------------------------------------------ update_office
\* The first block looks for OfficeC2RClient.exe and, when it is there, runs
\* it; the second classifies how it ended (exit code 0, another exit code, an
\* exception of subprocess.run); the third resets the progress.
update_office(w) ==
    \/ /\ Polled
       /\ threads[w].kind = "update_office" /\ threads[w].pc = "start"
       /\ \E office_path \in BOOLEAN :
            LET msgs == <<Msg("Updating Office (Click-to-Run)...", 0, "info")>>
                          \o (IF office_path THEN <<>>
                              ELSE <<Msg("Office Click-to-Run not found", 0, "error")>>)
            IN /\ log(msgs)
               /\ current_progress' = IF office_path THEN 60 ELSE 0
               /\ threads' = [threads EXCEPT ![w] =
                    IF office_path
                      THEN Step(w, "f_run", <<"OfficeC2RClient.exe /update user">>, msgs)
                      ELSE [Step(w, "exit", <<>>, msgs) EXCEPT !.verdict = "not_found"]]
       /\ UNCHANGED <<env, ensured_once, repo, running_threads, checking_updates,
                      installing_updates, pswindowsupdate_available, ui_update_queue,
                      check_button, install_button>>
    \/ /\ Polled
       /\ threads[w].kind = "update_office" /\ threads[w].pc = "f_run"
       /\ \E o \in {"exit0", "nonzero", "exception"} :
            LET msgs == CASE o = "exit0" -> <<Msg("Office updated successfully", 0, "info")>>
                          [] o = "nonzero" ->
                               <<Msg("Office update completed with warnings", 0, "info")>>
                          [] OTHER -> <<Msg("Office update error", 0, "error")>>
            IN /\ log(msgs)
               /\ threads' = [threads EXCEPT ![w] =
                    [Step(w, "f_settle", <<>>, msgs) EXCEPT !.verdict = o]]
       /\ current_progress' = 100
       /\ UNCHANGED <<env, ensured_once, repo, running_threads, checking_updates,
                      installing_updates, pswindowsupdate_available, ui_update_queue,
                      check_button, install_button>>
    \/ /\ Polled
       /\ threads[w].kind = "update_office" /\ threads[w].pc = "f_settle"
       /\ current_progress' = 0
       /\ threads' = [threads EXCEPT ![w] = Step(w, "exit", <<>>, <<>>)]
       /\ UNCHANGED <<env, ensured_once, repo, running_threads, checking_updates,
                      installing_updates, pswindowsupdate_available, ui_update_queue,
                      check_button, install_button, log_queue>>

\* ------------------------------------------------------------ update_dotnet
\* ensure_module is its first statement; a False return ends the run with no
\* message and no progress update.  Otherwise one command is issued, its
\* output and its classification are logged, and the progress is reset.
update_dotnet(w) ==
    \/ /\ Polled
       /\ threads[w].kind = "update_dotnet" /\ threads[w].pc = "start"
       /\ threads' = [threads EXCEPT ![w] = Step(w, "em_enter", <<>>, <<>>)]
       /\ UNCHANGED current_progress
       /\ UNCHANGED <<env, ensured_once, repo, running_threads, checking_updates,
                      installing_updates, pswindowsupdate_available, ui_update_queue,
                      check_button, install_button, log_queue>>
    \/ /\ Polled
       /\ threads[w].kind = "update_dotnet" /\ threads[w].pc = "em_ret"
       /\ IF ~threads[w].ret
            THEN /\ threads' = [threads EXCEPT ![w] =
                      [Step(w, "exit", <<>>, <<>>) EXCEPT !.verdict = "no_module"]]
                 /\ UNCHANGED <<log_queue, current_progress>>
            ELSE LET msgs == <<Msg("Updating .NET Framework...", 0, "info")>>
                 IN /\ log(msgs)
                    /\ current_progress' = 30
                    /\ threads' = [threads EXCEPT ![w] =
                         Step(w, "n_cmd", <<"Get-WindowsUpdate -Install (.NET)">>, msgs)]
       /\ UNCHANGED <<env, ensured_once, repo, running_threads, checking_updates,
                      installing_updates, pswindowsupdate_available, ui_update_queue,
                      check_button, install_button>>
    \/ /\ Polled
       /\ threads[w].kind = "update_dotnet" /\ threads[w].pc = "n_cmd"
       /\ \E r \in PlainResults :
            LET msgs == OutputLines(r)
                          \o (IF DotnetFailed(r)
                                THEN <<Msg(".NET update error", 0, "error")>>
                                ELSE <<Msg(".NET Framework update completed", 0, "info")>>)
            IN /\ log(msgs)
               /\ threads' = [threads EXCEPT ![w] =
                    [Step(w, "n_settle", <<>>, msgs)
                       EXCEPT !.res = r,
                              !.verdict = IF DotnetFailed(r) THEN "failure" ELSE "installed"]]
       /\ current_progress' = 100
       /\ UNCHANGED <<env, ensured_once, repo, running_threads, checking_updates,
                      installing_updates, pswindowsupdate_available, ui_update_queue,
                      check_button, install_button>>
    \/ /\ Polled
       /\ threads[w].kind = "update_dotnet" /\ threads[w].pc = "n_settle"
       /\ current_progress' = 0
       /\ threads' = [threads EXCEPT ![w] = Step(w, "exit", <<>>, <<>>)]
       /\ UNCHANGED <<env, ensured_once, repo, running_threads, checking_updates,
                      installing_updates, pswindowsupdate_available, ui_update_queue,
                      check_button, install_button, log_queue>>

\* ---------------------------------------------------------- update_vcredist
\* "where winget" decides which command run_powershell is given: the winget
\* upgrade, or (when subprocess.run raises) the download script.
update_vcredist(w) ==
    \/ /\ Polled
       /\ threads[w].kind = "update_vcredist" /\ threads[w].pc = "start"
       /\ LET msgs == <<Msg("Updating VC++ Redistributables...", 0, "info")>>
          IN /\ log(msgs)
             /\ threads' = [threads EXCEPT ![w] = Step(w, "v_where", <<"where winget">>, msgs)]
       /\ current_progress' = 30
       /\ UNCHANGED <<env, ensured_once, repo, running_threads, checking_updates,
                      installing_updates, pswindowsupdate_available, ui_update_queue,
                      check_button, install_button>>
    \/ /\ Polled
       /\ threads[w].kind = "update_vcredist" /\ threads[w].pc = "v_where"
       /\ \E winget \in BOOLEAN :
            threads' = [threads EXCEPT ![w] =
              Step(w, "v_cmd", <<IF winget THEN "winget upgrade" ELSE "Invoke-WebRequest">>,
                   <<>>)]
       /\ UNCHANGED current_progress
       /\ UNCHANGED <<env, ensured_once, repo, running_threads, checking_updates,
                      installing_updates, pswindowsupdate_available, ui_update_queue,
                      check_button, install_button, log_queue>>
    \/ /\ Polled
       /\ threads[w].kind = "update_vcredist" /\ threads[w].pc = "v_cmd"
       /\ \E r \in PlainResults :
            LET msgs == IF VcredistFailed(r)
                          THEN <<Msg("VC++ update error", 0, "error")>>
                          ELSE <<Msg("VC++ Redistributables updated", 0, "info")>>
            IN /\ log(msgs)
               /\ threads' = [threads EXCEPT ![w] =
                    [Step(w, "v_settle", <<>>, msgs)
                       EXCEPT !.res = r,
                              !.verdict = IF VcredistFailed(r) THEN "failure" ELSE "installed"]]
       /\ current_progress' = 100
       /\ UNCHANGED <<env, ensured_once, repo, running_threads, checking_updates,
                      installing_updates, pswindowsupdate_available, ui_update_queue,
                      check_button, install_button>>
    \/ /\ Polled
       /\ threads[w].kind = "update_vcredist" /\ threads[w].pc = "v_settle"
       /\ current_progress' = 0
       /\ threads' = [threads EXCEPT ![w] = Step(w, "exit", <<>>, <<>>)]
       /\ UNCHANGED <<env, ensured_once, repo, running_threads, checking_updates,
                      installing_updates, pswindowsupdate_available, ui_update_queue,
                      check_button, install_button, log_queue>>

on_update_office ==
    /\ run_async("update_office")
    /\ UNCHANGED <<env, ensured_once, repo, checking_updates, installing_updates,
                   pswindowsupdate_available, current_progress, log_queue,
                   ui_update_queue, check_button, install_button>>

on_update_dotnet ==
    /\ run_async("update_dotnet")
    /\ UNCHANGED <<env, ensured_once, repo, checking_updates, installing_updates,
                   pswindowsupdate_available, current_progress, log_queue,
                   ui_update_queue, check_button, install_button>>

on_update_vcredist ==
    /\ run_async("update_vcredist")
    /\ UNCHANGED <<env, ensured_once, repo, checking_updates, installing_updates,
                   pswindowsupdate_available, current_progress, log_queue,
                   ui_update_queue, check_button, install_button>>

\* Every workflow, one at a time and at most MaxWorkflows of them, over a
\* repository without and with package files.
InitWorkflows ==
    \E d \in {NoDir, Dir(TRUE, <<F_a, F_txt, F_b>>)} : __init__(MissingFile, d) /\ NoCall

NextWorkflows ==
    \/ Polled /\ Idle /\ running_threads < MaxWorkflows /\ on_check_updates
    \/ Polled /\ Idle /\ running_threads < MaxWorkflows /\ on_download_updates
    \/ Polled /\ Idle /\ running_threads < MaxWorkflows /\ on_install_updates
    \/ Polled /\ Idle /\ running_threads < MaxWorkflows /\ on_install_offline
    \/ Polled /\ Idle /\ running_threads < MaxWorkflows /\ on_update_office
    \/ Polled /\ Idle /\ running_threads < MaxWorkflows /\ on_update_dotnet
    \/ Polled /\ Idle /\ running_threads < MaxWorkflows /\ on_update_vcredist
    \/ \E w \in ThreadIds :
         \/ check_pswindowsupdate(w)
         \/ ensure_module(w)
         \/ check_updates(w)
         \/ install_updates(w)
         \/ download_updates(w)
         \/ install_offline(w)
         \/ update_office(w)
         \/ update_dotnet(w)
         \/ update_vcredist(w)
         \/ thread_exit(w)
    \/ write_manifest
    \/ update_log_display

SpecWorkflows == InitWorkflows /\ [][NextWorkflows]_vars

\* The same workflows after the startup thread has ended, with the two
\* settings changed at any moment: at most MaxSettings workflows, and one more
\* online install after them (its button needs a check that found updates).
\* The default repository holds one package file; the folders the dialog
\* offers hold none.
InitSettings == __init__(MissingFile, Dir(TRUE, <<F_a>>)) /\ NoCall

NextSettings ==
    \/ Polled /\ Idle /\ running_threads < MaxSettings /\ on_check_updates
    \/ Polled /\ Idle /\ running_threads < MaxSettings /\ on_download_updates
    \/ Polled /\ Idle /\ running_threads < MaxSettings + 1 /\ on_install_updates
    \/ Polled /\ Idle /\ running_threads < MaxSettings /\ on_install_offline
    \/ Polled /\ Idle /\ running_threads < MaxSettings /\ on_update_office
    \/ Polled /\ Idle /\ running_threads < MaxSettings /\ on_update_dotnet
    \/ Polled /\ Idle /\ running_threads < MaxSettings /\ on_update_vcredist
    \/ Polled /\ on_toggle_auto_reboot
    \/ Polled /\ on_change_repo
    \/ \E w \in Workers :
         \/ ensure_module(w)
         \/ check_updates(w)
         \/ install_updates(w)
         \/ download_updates(w)
         \/ install_offline(w)
         \/ update_office(w)
         \/ update_dotnet(w)
         \/ update_vcredist(w)
         \/ thread_exit(w)
    \/ write_manifest
    \/ update_log_display

SpecSettings == InitSettings /\ [][NextSettings]_vars

\* ================================================================ claims
\* a run of kind k that has ended: its function returned or raised
Ended(w, k) == threads[w].kind = k /\ threads[w].pc \in {"exit", "raise"}

\* the thread has just classified the result of its main step, held in res
MainClassified(w) ==
    \/ threads[w].kind = "check_updates" /\ threads[w].pc \in {"c_settle", "raise"}
    \/ threads[w].kind = "install_updates" /\ threads[w].pc = "i_settle"
    \/ threads[w].kind = "download_updates"
         /\ \/ threads[w].pc = "m_query"
            \/ threads[w].pc = "d_settle" /\ threads[w].verdict = "failure"

\* the thread has just classified the result of the update-list query
ListClassified(w) ==
    /\ threads[w].kind = "install_updates"
    /\ threads[w].verdict \in {"list_failure", "none_available", "installing"}
    /\ threads[w].pc \in {"i_install", "exit"}

\* the thread has just classified the module command inside ensure_module
ModuleClassified(w) == threads[w].pc = "em_ret" /\ threads[w].res # NoResult

Clean(r) == r.code = 0 /\ r.err = E_none

\* the number in the thread's log entry with this text
LoggedN(w, text) ==
    LET k == CHOOSE j \in 1..Len(threads[w].logs) : threads[w].logs[j].text = text
    IN threads[w].logs[k].n

SuccessTexts == {"Your device is up to date", "Found available updates",
                 "Found updates but couldn't parse details",
                 "Updates downloaded successfully", "Updates installed successfully"}

\* C1: every check_updates and install_updates run ends with its re-entrancy
\* flag false and the progress value 0, whatever its commands returned.
C1_CleanupAlways ==
    \A w \in Workers :
      /\ Ended(w, "check_updates") => ~checking_updates /\ current_progress = 0
      /\ Ended(w, "install_updates") => ~installing_updates /\ current_progress = 0

\* C2: at most one check_updates worker is in flight at any time.
C2_OneCheckWorker == Cardinality(InFlight("check_updates")) <= 1

\* C3: at most one install_updates worker is in flight at any time.
C3_OneInstallWorker == Cardinality(InFlight("install_updates")) <= 1

\* C4: a flag is true only while a worker of its workflow is executing.
C4_FlagsOnlyWhileRunning ==
    /\ checking_updates => InFlight("check_updates") # {}
    /\ installing_updates => InFlight("install_updates") # {}

\* C5: in check, download and install-online, a main-step result with a
\* non-zero exit code or with "error" in its error text is a failure: an error
\* is logged, no success message is logged, download starts no manifest step.
\* (An error text that only carries the benign code 0x80240024 is left out
\* for check_updates: claim C6 is about it.)
C5_FailureClassified ==
    \A w \in Workers :
      (/\ MainClassified(w)
       /\ StepFailed(threads[w].res)
       /\ threads[w].kind = "check_updates" =>
            (threads[w].res.code # 0 \/ ~Contains(threads[w].res.err, T_benign))) =>
         /\ threads[w].verdict = "failure"
         /\ LoggedLevel(w, "error")
         /\ \A t \in SuccessTexts : ~Logged(w, t)
         /\ ~Issued(w, "Get-WindowsUpdate (manifest)")

\* C6: in check_updates an error text containing 0x80240024 means "up to
\* date", for every exit code and every output.
C6_BenignIsUpToDate ==
    \A w \in Workers :
      (threads[w].kind = "check_updates" /\ MainClassified(w)
         /\ Contains(threads[w].res.err, T_benign)) =>
         threads[w].verdict = "uptodate"

\* C7: for a successful query response "[]", "{}", one record or an array of
\* N records, check_updates and install_updates both compute the update
\* count 0, 0, 1, N.
C7_NormalizedCount ==
    \A w \in Workers :
      (Clean(threads[w].res) /\ threads[w].res.out.shape \in {"array", "object"}) =>
         /\ (threads[w].kind = "check_updates" /\ MainClassified(w)) =>
              /\ threads[w].verdict \in {"uptodate", "found"}
              /\ (IF threads[w].verdict = "found"
                    THEN LoggedN(w, "Found available updates") ELSE 0) = threads[w].res.out.n
         /\ ListClassified(w) =>
              /\ threads[w].verdict \in {"none_available", "installing"}
              /\ (IF threads[w].verdict = "installing"
                    THEN LoggedN(w, "Installing updates") ELSE 0) = threads[w].res.out.n

\* C8: no classifying step calls a result with exit code 0 and empty error
\* text a failure, whatever the output is.
C8_CleanNeverFailure ==
    /\ \A r \in PlainResults : Clean(r) => ~DotnetFailed(r) /\ ~VcredistFailed(r)
    /\ \A w \in Workers :
         /\ (ModuleClassified(w) /\ Clean(threads[w].res)) => threads[w].ret
         /\ ((MainClassified(w) \/ ListClassified(w)) /\ Clean(threads[w].res)) =>
              /\ threads[w].verdict \notin {"failure", "list_failure"}
              /\ ~LoggedLevel(w, "error")

\* C9: once a call of ensure_module has returned true, every later call
\* returns true at once and issues no command.
C9_EnsureIdempotent ==
    [][ensured_once =>
         \A w \in Workers :
           (threads[w].pc = "em_enter" /\ threads'[w].pc # "em_enter") =>
              /\ threads'[w].pc = "em_ret"
              /\ threads'[w].ret
              /\ threads'[w].cmds = threads[w].cmds]_vars

EnsureCmds == <<"Set-PSRepository", "Install-PackageProvider", "Install-Module">>

run_powershell_call ==
    /\ returned = NotCalled
    /\ returned' = run_powershell(completed)
    /\ UNCHANGED <<threads, running_threads, checking_updates, installing_updates,
                   pswindowsupdate_available, current_progress, log_queue,
                   ui_update_queue, check_button, install_button, repo, ensured_once,
                   config, config_file, auto_reboot_var, repo_path, downloads,
                   stop_event, completed, loaded, default_config,
                   config_is_default, messages, log_text>>

InitPowershell ==
    /\ __init__(MissingFile, NoDir)
    /\ completed \in Invocations
    /\ returned = NotCalled
    /\ loaded = NotLoaded(MissingFile)

SpecPowershell == InitPowershell /\ [][run_powershell_call]_vars

\* ============================= check_pswindowsupdate on run_powershell's triple
\* The startup thread alone: its presence query ends as drawn, run_powershell
\* (called with capture_output=True) turns that into a triple, and
\* check_pswindowsupdate classifies the triple.
InitPresence == InitPowershell /\ completed.capture_output

NextPresence ==
    \/ Polled /\ check_pswindowsupdate_start(0)
    \* the triple as the step reads it: output empty or not, the error text,
    \* the exit code
    \/ Polled /\ LET t == run_powershell(completed)
                 IN check_pswindowsupdate_returns(
                      0, Result(IF t.out = <<>> THEN O_empty ELSE O_text, t.err, t.code))
    \/ update_log_display

SpecPresence == InitPresence /\ [][NextPresence]_vars

\* C11: run_powershell never raises to its caller; it returns a triple for
\* every outcome of the invocation: the stripped streams and the exit code of
\* a completed process; empty output, "Command timed out" and exit code 1 on
\* timeout; empty output, exit code 1 and "Error: " followed by the exception
\* text on a launch failure.
C11_NeverRaises ==
    returned # NotCalled =>
      /\ ~returned.raised
      /\ (completed.how = "completed" /\ completed.capture_output) =>
           /\ returned.code = completed.returncode
           /\ returned.out = Strip(completed.stdout)
           /\ returned.err = Strip(completed.stderr)
      /\ completed.how = "TimeoutExpired" =>
           returned.out = <<>> /\ returned.err = E_timeout /\ returned.code = 1
      /\ completed.how = "Exception" =>
           /\ returned.out = <<>>
           /\ returned.code = 1
           /\ returned.err = ErrorPrefix \o completed.text
           /\ StepFailed(returned)

\* a launch failure has been turned into a triple
C11_Witness ==
    /\ completed.how = "Exception"
    /\ returned = Returns(<<>>, ErrorPrefix \o X_denied, 1)

\* ============================================================ install_offline
LastLog(w) == threads[w].logs[Len(threads[w].logs)]
Offline(w) == threads[w].kind = "install_offline" /\ Alive(w)

\* C12: an uncancelled install_offline run over n >= 1 .msu files hands each
\* file to dism once, in listing order, whatever the earlier files did, and
\* its last log line is "Installed k of n updates" with k the number of files
\* whose command exited 0; no running flag is set afterwards.
C12_OfflineCount ==
    \A w \in Workers :
      (Offline(w) /\ ~stop_event) =>
        /\ threads[w].pc = "o_dism" =>
             /\ threads[w].msu_files = MsuFiles(downloads[repo_path].listing)
             /\ threads[w].attempts = SubSeq(threads[w].msu_files, 1, threads[w].i + 1)
        /\ threads[w].verdict = "counted" =>
             /\ threads[w].msu_files = MsuFiles(downloads[repo_path].listing)
             /\ threads[w].attempts = threads[w].msu_files
             /\ LastLog(w) =
                  MsgOf("Installed updates",
                        Len(threads[w].msu_files) - Cardinality(threads[w].failed),
                        Len(threads[w].msu_files), "info")
             /\ ~checking_updates /\ ~installing_updates

\* three files, the second failed, the run reported 2 of 3
C12_Witness ==
    \E w \in Workers :
      /\ Offline(w) /\ ~stop_event /\ threads[w].pc = "exit"
      /\ threads[w].attempts = <<F_b, F_a, F_c>>
      /\ threads[w].failed = {F_a}
      /\ LastLog(w) = MsgOf("Installed updates", 2, 3, "info")

\* C13: with the Downloads directory missing, empty or without a file ending
\* in .msu, install_offline logs an error, hands nothing to dism and ends
\* with progress 0.
C13_NothingToInstall ==
    \A w \in Workers :
      (/\ Offline(w) /\ threads[w].pc # "start"
       /\ \/ ~downloads[repo_path].exists
          \/ \A k \in 1..Len(downloads[repo_path].listing) :
               ~EndsWith(downloads[repo_path].listing[k], T_msu)) =>
        /\ threads[w].pc = "exit"
        /\ LastLog(w).level = "error"
        /\ threads[w].attempts = <<>>
        /\ current_progress = 0

\* the directory holds files, none of them ends in .msu
C13_Witness ==
    \E w \in Workers :
      /\ Offline(w) /\ threads[w].pc = "exit"
      /\ downloads[repo_path].listing = <<F_txt, F_upper>>
      /\ threads[w].verdict = "no_msu"
      /\ threads[w].attempts = <<>>

\* C14: once stop_event is set, install_offline hands no further file to
\* dism: the next test of the loop leaves it, the run logs its count, calls
\* update_progress(100) and, after the delay, update_progress(0).
C14_StopsAtNextTest ==
    [][\A w \in Workers :
         (/\ Offline(w) /\ stop_event
          /\ threads'[w] # threads[w] /\ threads'[w].pc # "done") =>
           /\ threads'[w].attempts = threads[w].attempts
           /\ (threads[w].pc = "o_dism"
                 \/ (threads[w].pc = "start" /\ threads'[w].msu_files # <<>>)) =>
                /\ threads'[w].pc = "o_settle"
                /\ threads'[w].logs[Len(threads'[w].logs)] =
                     MsgOf("Installed updates", threads'[w].success_count,
                           Len(threads'[w].msu_files), "info")
                /\ current_progress' = 100
           /\ threads[w].pc = "o_settle" =>
                threads'[w].pc = "exit" /\ current_progress' = 0]_vars

\* the event was set during the first of three files: one file was handed to
\* dism, the count was logged and the progress reset
C14_Witness ==
    \E w \in Workers :
      /\ Offline(w) /\ stop_event /\ threads[w].pc = "exit"
      /\ threads[w].verdict = "counted"
      /\ Len(threads[w].attempts) = 1 /\ Len(threads[w].msu_files) = 3
      /\ current_progress = 0

\* ================================================================= settings
\* C15: when on_toggle_auto_reboot or on_change_repo has run to its end, the
\* configuration file deserializes to the configuration in memory.
C15_FileEqualsMemory ==
    [][(log_queue' # log_queue /\ log_queue' # <<>>) =>
         json_load(config_file') = Parsed("dict", config')]_vars

\* both settings have been changed and the file holds both
C15_Witness ==
    /\ log_queue = <<Msg("Repository path changed", 0, "info")>>
    /\ repo_path = "E:/Repo"
    /\ Get(config, "auto_reboot", Bool(FALSE)) = Bool(TRUE)
    /\ json_load(config_file) = Parsed("dict", config)
    /\ config # DEFAULT_CONFIG

\* C20: the install-all command carries exactly one reboot flag: -AutoReboot
\* when the configuration holds auto_reboot true as the command is built,
\* -IgnoreReboot when it holds false or no auto_reboot.
C20_RebootFlag ==
    [][\A w \in Workers :
         (threads[w].pc = "i_query" /\ threads'[w].pc = "i_install") =>
           /\ Len(threads'[w].cmds) = Len(threads[w].cmds) + 2
           /\ threads'[w].cmds[Len(threads[w].cmds) + 1] = "Get-WindowsUpdate -Install"
           /\ threads'[w].cmds[Len(threads[w].cmds) + 2] =
                IF "auto_reboot" \in DOMAIN config /\ config["auto_reboot"] = Bool(TRUE)
                  THEN "-AutoReboot" ELSE "-IgnoreReboot"]_vars

\* the setting is on and the command that was built carries -AutoReboot only
C20_Witness ==
    \E w \in Workers :
      /\ threads[w].kind = "install_updates" /\ threads[w].pc = "i_install"
      /\ Issued(w, "-AutoReboot") /\ ~Issued(w, "-IgnoreReboot")
      /\ auto_reboot_var
      /\ config_file = json_dump(Set(DEFAULT_CONFIG, "auto_reboot", Bool(TRUE)))

\* ================================================================= manifest
\* the value the metadata re-query of a download thread at d_settle returned
Requeried(w) == json_loads(threads[w].res.out)
Downloaded(w) ==
    threads[w].kind = "download_updates" /\ threads[w].verdict = "downloaded"

C18_ManifestFailureLogged ==
    [][/\ \A w \in Workers :
            /\ (threads[w].pc = "m_query" /\ threads'[w].pc # "m_query") =>
                 /\ threads'[w].pc = "d_settle" /\ current_progress' = 100
                 /\ threads'[w].cmds = threads[w].cmds
                 /\ ~(/\ threads'[w].res.code = 0 /\ threads'[w].res.err = E_none
                      /\ threads'[w].res.out.shape \in {"array", "object", "scalar"}) =>
                      /\ Len(threads'[w].logs) = Len(threads[w].logs) + 1
                      /\ threads'[w].logs[Len(threads'[w].logs)].text
                           = "Could not create manifest"
            /\ (threads[w].kind = "download_updates" /\ threads[w].pc = "d_settle"
                  /\ threads'[w].pc # "d_settle") =>
                 threads'[w].pc = "exit" /\ current_progress' = 0
       /\ (manifest_writers' # manifest_writers /\ manifest_writers' \subseteq manifest_writers
             /\ manifest_file' = manifest_file /\ manifest_file \notin manifest_writers) =>
            Len(log_queue') > Len(log_queue)]_vars

\* C19: when the update-list query of install_updates yields an empty list,
\* the run logs "No updates available" at info level, issues no install-all
\* command and ends with installing_updates false and progress 0.
C19_NoUpdatesNoInstall ==
    [][\A w \in Workers :
         (/\ threads[w].kind = "install_updates"
          /\ threads[w].pc = "i_query" /\ threads'[w].pc # "i_query"
          /\ \/ threads'[w].res.out = O_empty
             \/ threads'[w].res.out = Out("array", 0)) =>
           /\ threads'[w].pc = "exit"
           /\ threads'[w].logs = threads[w].logs \o <<Msg("No updates available", 0, "info")>>
           /\ threads'[w].cmds = threads[w].cmds
           /\ ~installing_updates'
           /\ current_progress' = 0]_vars

\* the query wrote "[]" and the run ended without an install-all command
C19_Witness ==
    \E w \in Workers :
      /\ threads[w].kind = "install_updates" /\ threads[w].pc = "exit"
      /\ threads[w].res = Result(Out("array", 0), E_none, 0)
      /\ threads[w].verdict = "none_available"
      /\ ~Issued(w, "Get-WindowsUpdate -Install")
      /\ ~installing_updates /\ current_progress = 0

\* ================================================ load_config, looked at alone
load_config_call ==
    /\ loaded.t = "none"
    /\ loaded' = LoadCall(loaded.file, load_config(loaded.file))
    /\ UNCHANGED <<threads, running_threads, checking_updates, installing_updates,
                   pswindowsupdate_available, current_progress, log_queue,
                   ui_update_queue, check_button, install_button, repo, ensured_once,
                   config, config_file, auto_reboot_var, repo_path, downloads,
                   stop_event, completed, returned, default_config,
                   config_is_default, messages, log_text>>

InitLoad ==
    /\ __init__(MissingFile, NoDir)
    /\ completed = TimeoutExpired
    /\ returned = NotCalled
    /\ \E f \in ConfigFiles : loaded = NotLoaded(f)

SpecLoad == InitLoad /\ [][load_config_call]_vars

\* C16: load_config returns exactly the default configuration for a missing
\* file and for a file that cannot be deserialized; a file that deserializes
\* is returned as read, with no key taken from the defaults.
C16_DefaultOrAsRead ==
    loaded.t # "none" =>
      /\ loaded.file.kind \in {"missing", "unreadable", "malformed"} =>
           loaded.t = "dict" /\ loaded.d = DEFAULT_CONFIG
      /\ loaded.file.kind = "object" =>
           /\ loaded.t = "dict"
           /\ DOMAIN loaded.d = {m[1] : m \in loaded.file.members}
           /\ \A m \in loaded.file.members : Literal(loaded.d[m[1]]) = m[2]
      /\ loaded.file.kind \in {"array", "scalar"} => loaded.t = loaded.file.kind

\* a file holding one key only was read, and the result holds that key only
C16_Witness ==
    /\ loaded.file = json_dump([dark_mode |-> Bool(TRUE)])
    /\ loaded.t = "dict"
    /\ DOMAIN loaded.d = {"dark_mode"}

\* ============================================================ every workflow
\* the update queries and install commands of the workflows that call
\* ensure_module
ModuleCmds == {"Get-WindowsUpdate", "Get-WUList", "Get-WindowsUpdate -Install",
               "Get-WindowsUpdate -Download", "Get-WindowsUpdate (manifest)",
               "Get-WindowsUpdate -Install (.NET)"}
UsesModule(t) ==
    t.kind \in {"check_updates", "download_updates", "install_updates", "update_dotnet"}

\* C21: in check, download, install-online and framework runs a query or
\* install command is issued only after ensure_module has returned true in
\* the same run, and a run whose ensure_module returned false ends at once
\* without issuing one.
C21_EnsureBeforeQuery ==
    [][\A w \in Workers :
         /\ (UsesModule(threads'[w]) /\ \E k \in 1..Len(threads'[w].cmds) :
                                            threads'[w].cmds[k] \in ModuleCmds) =>
              threads'[w].ret
         /\ (UsesModule(threads[w]) /\ threads[w].pc = "em_ret" /\ ~threads[w].ret
                /\ threads'[w] # threads[w]) =>
              /\ threads'[w].pc = "exit"
              /\ threads'[w].cmds = threads[w].cmds
         /\ (threads[w].pc = "exit" /\ threads'[w] # threads[w]) => ~Alive(w)']_vars

\* a framework run has ended after the three module commands: ensure_module
\* returned false and nothing else was issued
C21_Witness ==
    \E w \in Workers :
      /\ Ended(w, "update_dotnet")
      /\ threads[w].verdict = "no_module"
      /\ threads[w].cmds = EnsureCmds

NoRepeat(s) == \A a, b \in 1..Len(s) : a # b => s[a] # s[b]

\* C23: within one run no external command step is issued twice, and in
\* install_offline no package file is handed to dism twice, whatever the
\* results are.
C23_NoRetry ==
    \A w \in Workers : NoRepeat(threads[w].cmds) /\ NoRepeat(threads[w].attempts)

\* an install run whose install-all command failed after ensure_module had
\* installed the module: five commands, each issued once
C23_Witness ==
    \E w \in Workers :
      /\ threads[w].kind = "install_updates" /\ threads[w].pc = "i_settle"
      /\ threads[w].verdict = "failure"
      /\ threads[w].cmds = EnsureCmds \o <<"Get-WUList", "Get-WindowsUpdate -Install",
                                            "-IgnoreReboot">>

\* C22: in install_offline over n >= 1 package files the progress value set
\* after the i-th file is the integer part of 30 + i*60/n; the values set in
\* the file loop never decrease, lie within 30..90, and the one set after the
\* last file is 90.
C22_ProgressPerFile ==
    \A w \in Workers :
      threads[w].kind = "install_offline" =>
        LET e == threads[w].emitted
            n == Len(threads[w].msu_files)
        IN /\ Len(e) = threads[w].i
           /\ \A k \in 1..Len(e) :
                /\ e[k] * n <= 30 * n + k * 60
                /\ 30 * n + k * 60 < (e[k] + 1) * n
                /\ e[k] \in 30..90
                /\ k > 1 => e[k - 1] <= e[k]
           /\ (n >= 1 /\ Len(e) = n) => e[n] = 90

\* seven files have been handled: the six values before 90 are truncated
C22_Witness ==
    \E w \in Workers :
      /\ threads[w].kind = "install_offline" /\ threads[w].pc = "o_settle"
      /\ threads[w].emitted = <<38, 47, 55, 64, 72, 81, 90>>

\* ================================================================ UI loop
\* C24: every status update a workflow puts through set_status is eventually
\* applied by the UI loop, that is, taken from ui_update_queue.
C24_StatusApplied == (ui_update_queue > 0) ~> (ui_update_queue = 0)

\* the entries of s that worker w logged
OfWorker(s, w) == SelectSeq(s, LAMBDA m : m.of = w)

\* C25: under any interleaving of logging workers every entry put by log() is
\* displayed by the UI loop exactly once, and the entries of one worker are
\* displayed in the order it logged them: what a worker has logged is what is
\* displayed, taken or waiting of it, in that order, and whenever entries are
\* waiting or taken there comes a moment when all of them are displayed.
C25_DisplayedOnce ==
    /\ [](\A w \in Workers :
            OfWorker(log_text \o messages \o log_queue, w) = threads[w].logs)
    /\ (log_queue \o messages # <<>>) ~> (log_queue \o messages = <<>>)

\* four entries of two workers are displayed, worker 2's first entry before
\* worker 1's
C25_Witness ==
    /\ Len(log_text) = 4 /\ log_queue = <<>> /\ messages = <<>>
    /\ log_text[1].of = 2 /\ log_text[2].of = 1
    /\ \E j \in 3..4 : log_text[j].of = 2

\* C26: under any interleaving of the workflows that share the progress
\* value, the value is 0 whenever no workflow worker is in flight.
C26_IdleProgressZero == (\A w \in Workers : ~Alive(w)) => current_progress = 0

\* C27: in install_updates a failed update-list query (non-zero exit code,
\* timeout, or "error" in its error text) is logged as an error and is never
\* reported as "No updates available".
C27_ListFailureLogged ==
    \A w \in Workers :
      (ListClassified(w) /\ StepFailed(threads[w].res)) =>
         /\ LastLog(w).level = "error"
         /\ ~Logged(w, "No updates available")

\* C28: the fallback value of load_config is fixed: whatever settings were
\* changed after a fallback load, DEFAULT_CONFIG still has its initial value,
\* so a later fallback load returns the original defaults.
C28_DefaultFixed == default_config = DEFAULT_CONFIG

\* C29: pswindowsupdate_available is true only if a module-presence query
\* returned the module without error (or the module installation of
\* ensure_module succeeded, which the startup thread does not run); a presence
\* query that returns error text never marks the module available.
C29_AvailableOnlyIfFound ==
    (threads[0].pc = "done" /\ pswindowsupdate_available) =>
       /\ completed.how = "completed"
       /\ Strip(completed.stdout) # <<>>
       /\ Strip(completed.stderr) = <<>>

\* C30: no workflow worker step (check, download, install online, install
\* offline, office, framework, redistributable) changes the in-memory
\* configuration, the repository path or the configuration file: every step
\* that changes one of them is a step of on_toggle_auto_reboot or of
\* on_change_repo, and it leaves every thread where it was.
C30_OnlyHandlersWriteSettings ==
    [][(<<config, repo_path, config_file>>' # <<config, repo_path, config_file>>)
         => /\ on_toggle_auto_reboot \/ on_change_repo
            /\ threads' = threads]_vars

\* a worker ran to its end after both settings were changed and saved
C30_Witness ==
    /\ repo_path # REPO_DIR
    /\ config = Set(Set(DEFAULT_CONFIG, "auto_reboot", Bool(TRUE)), "repo_path", Str(repo_path))
    /\ config_file = json_dump(config)
    /\ \E w \in Workers : threads[w].pc = "exit" /\ threads[w].cmds # <<>>

\* a worker of the workflow between its first step and its last
Running(w, kind) ==
    threads[w].kind = kind
      /\ threads[w].pc \notin {"idle", "start", "exit", "raise", "done", "dead"}

\* C31: from the first step of an install_updates (check_updates) worker until
\* its last step installing_updates (checking_updates) stays true; the end of
\* another worker of the same workflow never clears the flag under it.
C31_FlagHeldWhileRunning ==
    \A w \in Workers :
      /\ Running(w, "install_updates") => installing_updates
      /\ Running(w, "check_updates") => checking_updates
====
